---- MODULE Spec2Model ----
(***************************************************************************)
(* A model of the OpenAPI type/model builder of coze-sdk-gen               *)
(* (parser/parser.go): schema conversion into a heap of Ty nodes, the      *)
(* rule stages of ParseOpenAPI, module assignment and the per-module       *)
(* topological sort.  Go pointers are indices into the sequence `heap`     *)
(* (0 is nil); Go maps are TLA+ functions and every `range` over a map is  *)
(* a choice among all orders of its keys.                                  *)
(***************************************************************************)
EXTENDS Integers, Sequences, FiniteSets, TLC

VARIABLES doc, config, heap, namedTypes, modules, pc, ret, prev, generated

vars == <<doc, config, heap, namedTypes, modules, pc, ret, prev, generated>>

(***************************************************************************)
(* Bounds                                                                  *)
(***************************************************************************)
\* Depth of nested convertSchema calls after which the goroutine stack is
\* taken to be exhausted (the Go runtime aborts the process).
MaxDepth == 12

(***************************************************************************)
(* Generic helpers                                                         *)
(***************************************************************************)
Nil == 0

Range(s) == {s[i] : i \in DOMAIN s}

RECURSIVE Perms(_)
\* All orders in which a `range` may yield the keys K of a Go map.
Perms(K) ==
    IF K = {} THEN {<<>>}
    ELSE UNION {{<<x>> \o o : o \in Perms(K \ {x})} : x \in K}

RECURSIVE JoinStrings(_, _)
\* strings.Join
JoinStrings(s, sep) ==
    IF Len(s) = 0 THEN ""
    ELSE IF Len(s) = 1 THEN s[1]
    ELSE s[1] \o sep \o JoinStrings(Tail(s), sep)

\* The strings the model uses as type, handler and module names, in the
\* ascending byte-wise order of Go's string comparison.
NameOrder ==
    << "", "A", "Alpha", "AlphaResp", "B", "Beta", "BetaResp", "C", "D", "Gamma", "M",
       "Z", "Zebra", "ZebraResp", "default", "m1", "m1.m2", "m2" >>

StrRank(s) == CHOOSE i \in 1..Len(NameOrder) : NameOrder[i] = s

\* a < b on Go strings
StrLess(a, b) == StrRank(a) < StrRank(b)

\* strings.Compare
StrCompare(a, b) == IF a = b THEN 0 ELSE IF StrLess(a, b) THEN -1 ELSE 1

(***************************************************************************)
(* The input document (openapi3.T as the parser reads it).  A *SchemaRef   *)
(* is a sequence of length 0 (nil) or 1; a SchemaRef with a Ref is read    *)
(* only through its Ref.                                                   *)
(***************************************************************************)
NoSchema == <<>>

NoProps == [n \in {} |-> NoSchema]

\* $ref: '#/components/schemas/<n>'
SRef(n) ==
    << [ref |-> <<"#", "components", "schemas", n>>, type |-> "", format |-> "",
        props |-> NoProps, hasOrder |-> FALSE, order |-> <<>>, required |-> {},
        items |-> NoSchema, addl |-> NoSchema] >>

\* type: integer | number | string | boolean
SPrim(t) ==
    << [ref |-> <<>>, type |-> t, format |-> "", props |-> NoProps, hasOrder |-> FALSE,
        order |-> <<>>, required |-> {}, items |-> NoSchema, addl |-> NoSchema] >>

\* a schema with no `type`
SUntyped ==
    << [ref |-> <<>>, type |-> "", format |-> "", props |-> NoProps, hasOrder |-> FALSE,
        order |-> <<>>, required |-> {}, items |-> NoSchema, addl |-> NoSchema] >>

\* type: object, properties in a Go map
SObj(props, required) ==
    << [ref |-> <<>>, type |-> "object", format |-> "", props |-> props, hasOrder |-> FALSE,
        order |-> <<>>, required |-> required, items |-> NoSchema, addl |-> NoSchema] >>

\* type: object with the x-coze-order extension
SObjOrdered(props, required, order) ==
    << [ref |-> <<>>, type |-> "object", format |-> "", props |-> props, hasOrder |-> TRUE,
        order |-> order, required |-> required, items |-> NoSchema, addl |-> NoSchema] >>

\* type: array
SArr(items) ==
    << [ref |-> <<>>, type |-> "array", format |-> "", props |-> NoProps, hasOrder |-> FALSE,
        order |-> <<>>, required |-> {}, items |-> items, addl |-> NoSchema] >>

\* additionalProperties: <schema>
SMap(value) ==
    << [ref |-> <<>>, type |-> "object", format |-> "", props |-> NoProps, hasOrder |-> FALSE,
        order |-> <<>>, required |-> {}, items |-> NoSchema, addl |-> value] >>

(***************************************************************************)
(* The type system (Ty, TyField, TyKind)                                   *)
(***************************************************************************)
TyKindPrimitive == "primimtive"
TyKindObject == "object"
TyKindArray == "array"
TyKindMap == "map"

\* &Ty{Name: name, IsNamed: isNamed}
NewTy(name, isNamed) ==
    [Name |-> name, Kind |-> "", Module |-> "", PrimitiveKind |-> "", Fields |-> <<>>,
     ElementType |-> Nil, ValueType |-> Nil, IsNamed |-> isNamed]

NewField(name, ty, required) ==
    [Name |-> name, Type |-> ty, Required |-> required, Default |-> ""]

\* convertPrimitiveType
ConvertPrimitiveType(typ, format) ==
    CASE typ = "integer" -> "int"
      [] typ = "number" -> "float"
      [] typ = "string" -> IF format = "binary" THEN "binary" ELSE "string"
      [] typ = "boolean" -> "bool"
      [] OTHER -> ""

\* getRefName: the last of the segments strings.Split(ref, "/") gives (a
\* reference is held as the sequence of its segments)
GetRefName(ref) == ref[Len(ref)]

(***************************************************************************)
(* convertSchema.  A conversion threads the parser's memory                *)
(* st = [heap, namedTypes] and yields [heap, namedTypes, ty, err]; the     *)
(* operators return the set of results over every map iteration order.     *)
(***************************************************************************)
NoErr == ""
ErrNilSchema == "nil schema"
ErrStackOverflow == "fatal: stack overflow"

Res(h, nt, ty, err) == [heap |-> h, namedTypes |-> nt, ty |-> ty, err |-> err]

Registered(nt, name) == name \in DOMAIN nt /\ nt[name] # Nil

\* p.namedTypes[name] (nil when absent)
LookupType(nt, name) == IF name \in DOMAIN nt THEN nt[name] ELSE Nil

\* p.doc.Components.Schemas[name] (nil when absent)
LookupSchema(d, name) == IF name \in DOMAIN d.schemas THEN d.schemas[name] ELSE NoSchema

\* p.namedTypes[name] = ty
Register(nt, name, ty) == (name :> ty) @@ nt

\* lines 663-668: a named type is stored in the type map when its
\* conversion is over
StoreNamed(r, name, isNamed, ty) ==
    IF isNamed THEN Res(r.heap, Register(r.namedTypes, name, ty), ty, NoErr)
    ELSE Res(r.heap, r.namedTypes, ty, NoErr)

\* lines 594-603: a map type returns before the store of lines 663-668
ReturnMap(r, name, isNamed, ty) == Res(r.heap, r.namedTypes, ty, NoErr)

RECURSIVE ConvertSchema(_, _, _, _, _, _)
RECURSIVE ConvertProps(_, _, _, _, _, _)

\* convertField + append to ty.Fields, for the property names of `names`
\* in sequence; an absent property of x-coze-order is skipped
ConvertProps(d, st, ty, s, names, depth) ==
    IF Len(names) = 0 THEN {Res(st.heap, st.namedTypes, ty, NoErr)}
    ELSE IF Head(names) \notin DOMAIN s.props
    THEN ConvertProps(d, st, ty, s, Tail(names), depth)
    ELSE UNION {
        IF r.err # NoErr THEN {r}
        ELSE LET fld == NewField(Head(names), r.ty, Head(names) \in s.required)
                 h2 == [r.heap EXCEPT ![ty].Fields = Append(@, fld)]
             IN ConvertProps(d, [heap |-> h2, namedTypes |-> r.namedTypes], ty, s,
                             Tail(names), depth)
        : r \in ConvertSchema(d, st, s.props[Head(names)], "", FALSE, depth + 1) }

ConvertSchema(d, st, schema, name, isNamed, depth) ==
    IF depth > MaxDepth THEN {Res(st.heap, st.namedTypes, Nil, ErrStackOverflow)}
    ELSE IF schema = NoSchema THEN {Res(st.heap, st.namedTypes, Nil, ErrNilSchema)}
    ELSE LET s == schema[1] IN
    IF s.ref # <<>>
    THEN IF Registered(st.namedTypes, GetRefName(s.ref))
         THEN {Res(st.heap, st.namedTypes, st.namedTypes[GetRefName(s.ref)], NoErr)}
         ELSE ConvertSchema(d, st, LookupSchema(d, GetRefName(s.ref)), GetRefName(s.ref),
                            TRUE, depth + 1)
    ELSE LET ty == Len(st.heap) + 1
             h0 == Append(st.heap, NewTy(name, isNamed))
             st0 == [heap |-> h0, namedTypes |-> st.namedTypes]
         IN
         IF s.addl # NoSchema
         THEN {IF r.err # NoErr THEN r
               ELSE ReturnMap(
                      Res([r.heap EXCEPT ![ty].Kind = TyKindMap, ![ty].ValueType = r.ty],
                          r.namedTypes, ty, NoErr), name, isNamed, ty)
               : r \in ConvertSchema(d, st0, s.addl, "", FALSE, depth + 1)}
         ELSE IF s.type = "" THEN {StoreNamed(st0, name, isNamed, ty)}
         ELSE IF s.type = "array"
         THEN LET h1 == [h0 EXCEPT ![ty].Kind = TyKindArray]
                  st1 == [heap |-> h1, namedTypes |-> st.namedTypes]
              IN IF s.items = NoSchema THEN {StoreNamed(st1, name, isNamed, ty)}
                 ELSE {IF r.err # NoErr THEN r
                       ELSE StoreNamed(
                              Res([r.heap EXCEPT ![ty].ElementType = r.ty],
                                  r.namedTypes, ty, NoErr), name, isNamed, ty)
                       : r \in ConvertSchema(d, st1, s.items, "", FALSE, depth + 1)}
         ELSE IF s.type = "object"
         THEN LET h1 == [h0 EXCEPT ![ty].Kind = TyKindObject]
                  st1 == [heap |-> h1, namedTypes |-> st.namedTypes]
                  orders == IF s.hasOrder THEN {s.order} ELSE Perms(DOMAIN s.props)
              IN UNION {
                   {IF r.err # NoErr THEN r ELSE StoreNamed(r, name, isNamed, ty)
                    : r \in ConvertProps(d, st1, ty, s, o, depth)}
                   : o \in orders }
         ELSE {StoreNamed(
                 Res([h0 EXCEPT ![ty].Kind = TyKindPrimitive,
                                ![ty].PrimitiveKind = ConvertPrimitiveType(s.type, s.format)],
                     st.namedTypes, ty, NoErr), name, isNamed, ty)}

(***************************************************************************)
(* processNamedTypes                                                       *)
(***************************************************************************)
RECURSIVE ProcessNamedSeq(_, _, _)
\* the loop of lines 528-538 over the component names in the order `names`
ProcessNamedSeq(d, st, names) ==
    IF Len(names) = 0 THEN {Res(st.heap, st.namedTypes, Nil, NoErr)}
    ELSE IF Registered(st.namedTypes, Head(names))
    THEN ProcessNamedSeq(d, st, Tail(names))
    ELSE UNION {
        IF r.err # NoErr THEN {r}
        ELSE ProcessNamedSeq(
               d, [heap |-> r.heap, namedTypes |-> Register(r.namedTypes, Head(names), r.ty)],
               Tail(names))
        : r \in ConvertSchema(d, st, d.schemas[Head(names)], Head(names), TRUE, 1) }

ProcessNamedTypes(d, st) ==
    UNION {ProcessNamedSeq(d, st, o) : o \in Perms(DOMAIN d.schemas)}

(***************************************************************************)
(* convertOperation and processOperations                                  *)
(***************************************************************************)
ContentTypeJson == "json"
ContentTypeFile == "file"

NewHandler(op, path, method) ==
    [Name |-> op.operationID, Path |-> path, Method |-> method,
     ContentType |-> ContentTypeJson, HeaderParams |-> <<>>, PathParams |-> <<>>,
     QueryParams |-> <<>>, RequestBody |-> Nil, ResponseBody |-> Nil]

HRes(h, nt, handler, err) == [heap |-> h, namedTypes |-> nt, handler |-> handler, err |-> err]

\* lines 724-731: the parameter list a location selects
AddParam(handler, in, parameter) ==
    CASE in = "header" -> [handler EXCEPT !.HeaderParams = Append(@, parameter)]
      [] in = "path" -> [handler EXCEPT !.PathParams = Append(@, parameter)]
      [] in = "query" -> [handler EXCEPT !.QueryParams = Append(@, parameter)]
      [] OTHER -> handler

RECURSIVE ConvertParams(_, _, _, _)
\* lines 706-732
ConvertParams(d, st, handler, params) ==
    IF Len(params) = 0 THEN {HRes(st.heap, st.namedTypes, handler, NoErr)}
    ELSE UNION {
        IF r.err # NoErr THEN {HRes(r.heap, r.namedTypes, handler, r.err)}
        ELSE ConvertParams(
               d, [heap |-> r.heap, namedTypes |-> r.namedTypes],
               AddParam(handler, Head(params).in,
                        NewField(Head(params).name, r.ty, Head(params).required)),
               Tail(params))
        : r \in ConvertSchema(d, st, Head(params).schema, "", FALSE, 1) }

\* lines 744-750
RequestContentType(handler, contentType) ==
    CASE contentType = "multipart/form-data" -> [handler EXCEPT !.ContentType = ContentTypeFile]
      [] contentType = "application/json" -> [handler EXCEPT !.ContentType = ContentTypeJson]
      [] OTHER -> handler

\* lines 734-754: the first content entry, in map order, that has a schema
ConvertRequestBody(d, hr, op) ==
    LET withSchema == {ct \in DOMAIN op.requestBody : op.requestBody[ct] # NoSchema}
        st == [heap |-> hr.heap, namedTypes |-> hr.namedTypes]
    IN IF withSchema = {} THEN {hr}
       ELSE UNION {
           {IF r.err # NoErr THEN HRes(r.heap, r.namedTypes, hr.handler, r.err)
            ELSE HRes(r.heap, r.namedTypes,
                      RequestContentType([hr.handler EXCEPT !.RequestBody = r.ty], ct), NoErr)
            : r \in ConvertSchema(d, st, op.requestBody[ct], "", FALSE, 1)}
           : ct \in withSchema }

\* lines 756-768: the "200" response, first content entry that has a schema
ConvertResponseBody(d, hr, op) ==
    LET withSchema == {ct \in DOMAIN op.response200 : op.response200[ct] # NoSchema}
        st == [heap |-> hr.heap, namedTypes |-> hr.namedTypes]
    IN IF withSchema = {} THEN {hr}
       ELSE UNION {
           {IF r.err # NoErr THEN HRes(r.heap, r.namedTypes, hr.handler, r.err)
            ELSE HRes(r.heap, r.namedTypes, [hr.handler EXCEPT !.ResponseBody = r.ty], NoErr)
            : r \in ConvertSchema(d, st, op.response200[ct], "", FALSE, 1)}
           : ct \in withSchema }

ConvertOperation(d, st, path, method, op) ==
    UNION {
      IF a.err # NoErr THEN {a}
      ELSE UNION {
             IF b.err # NoErr THEN {b} ELSE ConvertResponseBody(d, b, op)
             : b \in ConvertRequestBody(d, a, op) }
      : a \in ConvertParams(d, st, NewHandler(op, path, method), op.parameters) }

\* A module name made of the first tag alone; the placement of operations
\* in modules is tested against it.
ModuleNameOfFirstTag(op) == IF Len(op.tags) > 0 THEN op.tags[1] ELSE "default"

\* lines 551-555
ModuleNameOf(op) == IF Len(op.tags) > 0 THEN JoinStrings(op.tags, ".") ELSE "default"

NewModule(name) == [Name |-> name, HttpHandlers |-> <<>>, Types |-> <<>>]

\* lines 557-563
AddHandler(mods, moduleName, handler) ==
    LET module == IF moduleName \in DOMAIN mods THEN mods[moduleName] ELSE NewModule(moduleName)
    IN (moduleName :> [module EXCEPT !.HttpHandlers = Append(@, handler)]) @@ mods

PRes(h, nt, mods, err) == [heap |-> h, namedTypes |-> nt, modules |-> mods, err |-> err]

RECURSIVE ProcessOpSeq(_, _, _)
\* the loops of lines 544-565 over the (path, method) pairs in the order `ops`
ProcessOpSeq(d, st, ops) ==
    IF Len(ops) = 0 THEN {PRes(st.heap, st.namedTypes, st.modules, NoErr)}
    ELSE LET path == Head(ops)[1]
             method == Head(ops)[2]
             op == d.paths[path][method]
         IN UNION {
              IF r.err # NoErr THEN {PRes(r.heap, r.namedTypes, st.modules, r.err)}
              ELSE ProcessOpSeq(
                     d, [heap |-> r.heap, namedTypes |-> r.namedTypes,
                         modules |-> AddHandler(st.modules, ModuleNameOf(op), r.handler)],
                     Tail(ops))
              : r \in ConvertOperation(d, [heap |-> st.heap, namedTypes |-> st.namedTypes],
                                       path, method, op) }

Methods == {"GET", "POST", "PUT", "DELETE"}

\* the (path, method) pairs of the document
OpKeys(d) == {k \in (DOMAIN d.paths) \X Methods : k[2] \in DOMAIN d.paths[k[1]]}

\* the orders the nested map iteration can produce: the operations of one
\* path are visited together
OpOrders(d) ==
    {o \in Perms(OpKeys(d)) :
       \A i, j, k \in DOMAIN o : (i < j /\ j < k /\ o[i][1] = o[k][1]) => o[j][1] = o[i][1]}

ProcessOperations(d, st) == UNION {ProcessOpSeq(d, st, o) : o \in OpOrders(d)}

(***************************************************************************)
(* Semantic inference                                                      *)
(***************************************************************************)
\* the first index of a field named `name`, 0 when there is none
FieldIndex(fields, name) ==
    IF \E i \in DOMAIN fields : fields[i].Name = name
    THEN CHOOSE i \in DOMAIN fields :
           fields[i].Name = name /\ \A j \in 1..(i - 1) : fields[j].Name # name
    ELSE 0

\* A GetActualResponseBody that returns the declared body when there is
\* no `data` field; the unwrapping property is tested against it.
GetDataOrDeclaredBody(h, hp) ==
    IF h.ResponseBody = Nil \/ hp[h.ResponseBody].Kind # TyKindObject THEN h.ResponseBody
    ELSE LET i == FieldIndex(hp[h.ResponseBody].Fields, "data")
         IN IF i # 0 THEN hp[h.ResponseBody].Fields[i].Type ELSE h.ResponseBody

\* HttpHandler.GetActualResponseBody
GetActualResponseBody(h, hp) ==
    IF h.ResponseBody = Nil \/ hp[h.ResponseBody].Kind # TyKindObject THEN Nil
    ELSE LET i == FieldIndex(hp[h.ResponseBody].Fields, "data")
         IN IF i # 0 THEN hp[h.ResponseBody].Fields[i].Type ELSE Nil

\* Generator.convertHandler, lines 396-401: the type the generated operation
\* returns (Nil when operation.ResponseType is left unset)
ResponseTypeSource(h, hp) ==
    IF GetActualResponseBody(h, hp) # Nil THEN GetActualResponseBody(h, hp)
    ELSE IF h.ResponseBody # Nil THEN h.ResponseBody
    ELSE Nil

DefaultPageIndexCandidates == <<"page_index", "page_num">>

DefaultPageSizeCandidates == <<"page_size", "page_num">>

\* GetPageInfo returned nil
NoPageInfo == <<>>

\* a nil pointer dereference in GetPageInfo (field.Type.Kind of a field
\* without a type)
PageInfoPanic == <<[panic |-> "nil pointer dereference"]>>

RECURSIVE FirstCandidate(_, _)
\* lines 161-166: the first candidate that is a parameter name, "" if none
FirstCandidate(candidates, paramNames) ==
    IF Len(candidates) = 0 THEN ""
    ELSE IF Head(candidates) \in paramNames THEN Head(candidates)
    ELSE FirstCandidate(Tail(candidates), paramNames)

\* A size search that does not exclude the name chosen for the index; the
\* distinctness of the two names is tested against it.
FirstCandidateAny(candidates, paramNames, pageIndex) ==
    FirstCandidate(candidates, paramNames)

RECURSIVE FirstCandidateBut(_, _, _)
\* lines 169-174: the first candidate that is a parameter name and is not
\* pageIndex, "" if none
FirstCandidateBut(candidates, paramNames, pageIndex) ==
    IF Len(candidates) = 0 THEN ""
    ELSE IF Head(candidates) \in paramNames /\ Head(candidates) # pageIndex
    THEN Head(candidates)
    ELSE FirstCandidateBut(Tail(candidates), paramNames, pageIndex)

\* A search that takes the last array field instead of the first; the
\* element type of a paginated handler is tested against it.
LastArrayField(hp, fields, i, pageIndex, pageSize) ==
    LET arrays == {k \in i..Len(fields) :
                     fields[k].Type # Nil /\ hp[fields[k].Type].Kind = TyKindArray}
    IN IF arrays = {} THEN NoPageInfo
       ELSE <<[ItemType |-> hp[fields[CHOOSE k \in arrays : \A l \in arrays : l <= k].Type].ElementType,
               PageIndexName |-> pageIndex, PageSizeName |-> pageSize]>>

RECURSIVE FirstArrayField(_, _, _, _, _)
\* lines 187-196 for the fields i.. of the actual body
FirstArrayField(hp, fields, i, pageIndex, pageSize) ==
    IF i > Len(fields) THEN NoPageInfo
    ELSE IF fields[i].Type = Nil THEN PageInfoPanic
    ELSE IF hp[fields[i].Type].Kind = TyKindArray
    THEN <<[ItemType |-> hp[fields[i].Type].ElementType,
            PageIndexName |-> pageIndex, PageSizeName |-> pageSize]>>
    ELSE FirstArrayField(hp, fields, i + 1, pageIndex, pageSize)

\* HttpHandler.GetPageInfo
GetPageInfo(h, hp, pageIndexCandidates, pageSizeCandidates) ==
    LET ic == IF Len(pageIndexCandidates) = 0 THEN DefaultPageIndexCandidates
              ELSE pageIndexCandidates
        sc == IF Len(pageSizeCandidates) = 0 THEN DefaultPageSizeCandidates
              ELSE pageSizeCandidates
        paramNames == {h.QueryParams[i].Name : i \in DOMAIN h.QueryParams}
        pageIndex == FirstCandidate(ic, paramNames)
        pageSize == FirstCandidateBut(sc, paramNames, pageIndex)
        actualBody == GetActualResponseBody(h, hp)
    IN IF h.Method # "GET" THEN NoPageInfo
       ELSE IF pageIndex = "" \/ pageSize = "" THEN NoPageInfo
       ELSE IF actualBody = Nil \/ hp[actualBody].Kind # TyKindObject THEN NoPageInfo
       ELSE FirstArrayField(hp, hp[actualBody].Fields, 1, pageIndex, pageSize)

\* the statusFields map of HasOnlyStatusFields
StatusFields == {"code", "msg", "detail", "logid"}

\* A test that does not ask for a field; the `at least one field` condition
\* is tested against it.
HasNoOtherFields(ty, hp) ==
    /\ ty # Nil
    /\ hp[ty].Kind = TyKindObject
    /\ \A i \in DOMAIN hp[ty].Fields : hp[ty].Fields[i].Name \in StatusFields

\* Ty.HasOnlyStatusFields
HasOnlyStatusFields(ty, hp) ==
    IF ty = Nil \/ hp[ty].Kind # TyKindObject THEN FALSE
    ELSE IF \E i \in DOMAIN hp[ty].Fields : hp[ty].Fields[i].Name \notin StatusFields
    THEN FALSE
    ELSE Len(hp[ty].Fields) > 0

(***************************************************************************)
(* The generator's reading of the parsed modules (Generator.convertModule, *)
(* convertType, convertHandler).  Of a class and an operation the model    *)
(* keeps what is inferred from the types; the generator's own config.yaml  *)
(* is taken to be empty and enum types do not occur.                       *)
(***************************************************************************)
NoPanic == ""

\* convertType: nil for an unnamed type
ConvertType(ty, hp) ==
    IF ~hp[ty].IsNamed THEN <<>>
    ELSE <<[Name |-> hp[ty].Name, IsPass |-> HasOnlyStatusFields(ty, hp)]>>

\* convertHandler
ConvertHandler(h, hp) ==
    LET pageInfo == GetPageInfo(h, hp, <<>>, <<>>)
        paged == pageInfo # NoPageInfo /\ pageInfo # PageInfoPanic
    IN [Name |-> h.Name,
        HasBody |-> h.RequestBody # Nil,
        HasFileUpload |-> h.RequestBody # Nil /\ h.ContentType = ContentTypeFile,
        ResponseType |-> ResponseTypeSource(h, hp),
        IsPaged |-> paged,
        ItemType |-> IF paged THEN pageInfo[1].ItemType ELSE Nil,
        PageIndexName |-> IF paged THEN pageInfo[1].PageIndexName ELSE "",
        PageSizeName |-> IF paged THEN pageInfo[1].PageSizeName ELSE "",
        panic |-> IF h.RequestBody # Nil /\ h.ContentType \notin {ContentTypeFile, ContentTypeJson}
                  THEN "panic: unsupported content type"
                  ELSE IF pageInfo = PageInfoPanic \/ (paged /\ pageInfo[1].ItemType = Nil)
                  THEN "panic: nil pointer dereference"
                  ELSE NoPanic]

RECURSIVE ConvertTypes(_, _)
\* convertModule, lines 233-238
ConvertTypes(tys, hp) ==
    IF Len(tys) = 0 THEN <<>>
    ELSE ConvertType(Head(tys), hp) \o ConvertTypes(Tail(tys), hp)

\* convertModule
ConvertModule(module, hp) ==
    LET operations == [i \in DOMAIN module.HttpHandlers |->
                         ConvertHandler(module.HttpHandlers[i], hp)]
    IN [Classes |-> ConvertTypes(module.Types, hp),
        Operations |-> operations,
        HasFileUpload |-> \E i \in DOMAIN operations : operations[i].HasFileUpload,
        panic |-> \E i \in DOMAIN operations : operations[i].panic # NoPanic]

(***************************************************************************)
(* Configuration (ModuleConfig)                                            *)
(***************************************************************************)
NoMap == [n \in {} |-> ""]

FieldRequirementNoChange == 0
FieldRequirementRequired == 1
FieldRequirementOptional == 2

\* the callback Generator.Generate passes as GenerateUnnamedResponseType
GenerateRespName(h, hp) ==
    IF GetActualResponseBody(h, hp) = Nil THEN [name |-> h.Name \o "Resp", gen |-> TRUE]
    ELSE [name |-> "", gen |-> FALSE]

\* p.config.GenerateUnnamedResponseType(&handler), for the callbacks the
\* model configures
CallGenerate(cb, h, hp) ==
    CASE cb = "resp" -> GenerateRespName(h, hp)
      [] OTHER -> [name |-> "", gen |-> FALSE]

(***************************************************************************)
(* The rule stages.  Each takes st = [heap, namedTypes, modules] and       *)
(* yields the set of [heap, namedTypes, modules, err] it can end in.       *)
(***************************************************************************)
StOf(r) == [heap |-> r.heap, namedTypes |-> r.namedTypes, modules |-> r.modules]

OkSt(st) == PRes(st.heap, st.namedTypes, st.modules, NoErr)

ErrSt(st, err) == PRes(st.heap, st.namedTypes, st.modules, err)

RECURSIVE GenerateInModule(_, _, _, _)
\* lines 289-302 for the handlers i.. of module m
GenerateInModule(cfg, st, m, i) ==
    IF i > Len(st.modules[m].HttpHandlers) THEN st
    ELSE LET h == st.modules[m].HttpHandlers[i]
             body == h.ResponseBody
         IN IF body = Nil \/ st.heap[body].IsNamed THEN GenerateInModule(cfg, st, m, i + 1)
            ELSE LET g == CallGenerate(cfg.GenerateUnnamedResponseType, h, st.heap)
                 IN IF ~g.gen THEN GenerateInModule(cfg, st, m, i + 1)
                    ELSE GenerateInModule(
                           cfg,
                           [st EXCEPT !.heap[body].Name = g.name,
                                      !.heap[body].IsNamed = TRUE,
                                      !.modules[m].Types = Append(@, body)],
                           m, i + 1)

RECURSIVE GenerateSeq(_, _, _)
GenerateSeq(cfg, st, ms) ==
    IF Len(ms) = 0 THEN st
    ELSE GenerateSeq(cfg, GenerateInModule(cfg, st, Head(ms), 1), Tail(ms))

\* generateUnnamedResponseTypes
GenerateUnnamedResponseTypes(cfg, st) ==
    IF cfg.GenerateUnnamedResponseType = "nil" THEN {OkSt(st)}
    ELSE {OkSt(GenerateSeq(cfg, st, o)) : o \in Perms(DOMAIN st.modules)}

\* A modification that sets the requirement and drops the default; the
\* effect of a field override is tested against it.
ApplyRequirementOnly(fld, modification) ==
    CASE modification.Requirement = FieldRequirementRequired -> [fld EXCEPT !.Required = TRUE]
      [] modification.Requirement = FieldRequirementOptional -> [fld EXCEPT !.Required = FALSE]
      [] OTHER -> fld

\* lines 331-342: one modification applied to one field
ApplyModification(fld, modification) ==
    LET f1 == CASE modification.Requirement = FieldRequirementRequired ->
                     [fld EXCEPT !.Required = TRUE]
                [] modification.Requirement = FieldRequirementOptional ->
                     [fld EXCEPT !.Required = FALSE]
                [] OTHER -> fld
    IN IF modification.Default # "" THEN [f1 EXCEPT !.Default = modification.Default] ELSE f1

RECURSIVE ChangeFieldsOfType(_, _, _, _, _)
\* lines 323-352 for the type ty and the field names in the order `fns`
ChangeFieldsOfType(cfg, st, tn, ty, fns) ==
    IF Len(fns) = 0 THEN OkSt(st)
    ELSE LET modification == cfg.ChangeFields[tn][Head(fns)]
             i == FieldIndex(st.heap[ty].Fields, Head(fns))
         IN IF modification = <<>> THEN ChangeFieldsOfType(cfg, st, tn, ty, Tail(fns))
            ELSE IF i = 0 THEN ErrSt(st, "field not found")
            ELSE ChangeFieldsOfType(
                   cfg,
                   [st EXCEPT !.heap[ty].Fields[i] = ApplyModification(@, modification[1])],
                   tn, ty, Tail(fns))

RECURSIVE ChangeFieldsSeq(_, _, _)
\* lines 313-353 for the type names in the order `tns`
ChangeFieldsSeq(cfg, st, tns) ==
    IF Len(tns) = 0 THEN {OkSt(st)}
    ELSE LET tn == Head(tns)
             ty == LookupType(st.namedTypes, tn)
         IN IF tn \notin DOMAIN st.namedTypes THEN {ErrSt(st, "type not found")}
            ELSE IF ty = Nil \/ st.heap[ty].Kind # TyKindObject
            THEN {ErrSt(st, "type is not an object type")}
            ELSE UNION {
                   LET r == ChangeFieldsOfType(cfg, st, tn, ty, o)
                   IN IF r.err # NoErr THEN {r} ELSE ChangeFieldsSeq(cfg, StOf(r), Tail(tns))
                   : o \in Perms(DOMAIN cfg.ChangeFields[tn]) }

\* changeFieldRequirements
ChangeFieldRequirements(cfg, st) ==
    IF DOMAIN cfg.ChangeFields = {} THEN {OkSt(st)}
    ELSE UNION {ChangeFieldsSeq(cfg, st, o) : o \in Perms(DOMAIN cfg.ChangeFields)}

\* lines 369-373: the position (from 0) of the last occurrence of each name
OrderMap(orderedNames) ==
    [n \in Range(orderedNames) |->
       (CHOOSE i \in DOMAIN orderedNames :
          orderedNames[i] = n /\ \A j \in DOMAIN orderedNames : orderedNames[j] = n => j <= i) - 1]

\* A comparator that ignores the configured list; the handler order is
\* tested against it.
CompareByName(orderMap, a, b) == StrCompare(a.Name, b.Name)

\* lines 376-393: the comparator of the handler sort
CompareHandlers(orderMap, a, b) ==
    LET aExists == a.Name \in DOMAIN orderMap
        bExists == b.Name \in DOMAIN orderMap
    IN IF aExists /\ bExists THEN orderMap[a.Name] - orderMap[b.Name]
       ELSE IF aExists THEN -1
       ELSE IF bExists THEN 1
       ELSE StrCompare(a.Name, b.Name)

\* x inserted after the last element of the sorted sequence that does not
\* compare greater than it
InsertHandler(orderMap, sorted, x) ==
    LET k == Cardinality({i \in DOMAIN sorted :
                            \E j \in i..Len(sorted) : CompareHandlers(orderMap, sorted[j], x) <= 0})
    IN SubSeq(sorted, 1, k) \o <<x>> \o SubSeq(sorted, k + 1, Len(sorted))

RECURSIVE SortStableHandlers(_, _, _)
\* slices.SortStableFunc(module.HttpHandlers, ...): handlers[1..n] sorted
SortStableHandlers(orderMap, handlers, n) ==
    IF n = 0 THEN <<>>
    ELSE InsertHandler(orderMap, SortStableHandlers(orderMap, handlers, n - 1), handlers[n])

RECURSIVE OrderHandlersSeq(_, _, _)
\* lines 363-394 for the module names in the order `ms`
OrderHandlersSeq(cfg, st, ms) ==
    IF Len(ms) = 0 THEN OkSt(st)
    ELSE IF Head(ms) \notin DOMAIN st.modules THEN ErrSt(st, "module not found")
    ELSE LET hs == st.modules[Head(ms)].HttpHandlers
             sorted == SortStableHandlers(OrderMap(cfg.HandlerOrdering[Head(ms)]), hs, Len(hs))
         IN OrderHandlersSeq(cfg, [st EXCEPT !.modules[Head(ms)].HttpHandlers = sorted], Tail(ms))

\* orderHandlers
OrderHandlers(cfg, st) ==
    IF DOMAIN cfg.HandlerOrdering = {} THEN {OkSt(st)}
    ELSE {OrderHandlersSeq(cfg, st, o) : o \in Perms(DOMAIN cfg.HandlerOrdering)}

\* A substitution that does not compare handler names; the scope of a
\* response substitution is tested against it.
SetEveryResponseBody(mods, handlerName, newType) ==
    [m \in DOMAIN mods |->
       [mods[m] EXCEPT !.HttpHandlers =
          [i \in DOMAIN mods[m].HttpHandlers |->
             [mods[m].HttpHandlers[i] EXCEPT !.ResponseBody = newType]]]]

\* lines 406-412: every handler of that name, in every module
SetResponseBody(mods, handlerName, newType) ==
    [m \in DOMAIN mods |->
       [mods[m] EXCEPT !.HttpHandlers =
          [i \in DOMAIN mods[m].HttpHandlers |->
             IF mods[m].HttpHandlers[i].Name = handlerName
             THEN [mods[m].HttpHandlers[i] EXCEPT !.ResponseBody = newType]
             ELSE mods[m].HttpHandlers[i]]]]

RECURSIVE ChangeResponseSeq(_, _, _)
\* lines 400-413 for the handler names in the order `hns`
ChangeResponseSeq(cfg, st, hns) ==
    IF Len(hns) = 0 THEN OkSt(st)
    ELSE LET responseType == cfg.ChangeHttpHandlerResponseType[Head(hns)]
         IN IF responseType \notin DOMAIN st.namedTypes THEN ErrSt(st, "type not found for handler")
            ELSE ChangeResponseSeq(
                   cfg,
                   [st EXCEPT !.modules =
                      SetResponseBody(@, Head(hns), st.namedTypes[responseType])],
                   Tail(hns))

\* changeResponseTypes
ChangeResponseTypes(cfg, st) ==
    {ChangeResponseSeq(cfg, st, o) : o \in Perms(DOMAIN cfg.ChangeHttpHandlerResponseType)}

\* delete(p.namedTypes, name)
Unregister(nt, name) == [n \in (DOMAIN nt) \ {name} |-> nt[n]]

RECURSIVE RenameSeq(_, _, _)
\* lines 431-439 for the old names in the order `ons`
RenameSeq(cfg, st, ons) ==
    IF Len(ons) = 0 THEN st
    ELSE LET oldName == Head(ons)
             newName == cfg.RenameTypes[oldName]
         IN IF oldName \in DOMAIN st.namedTypes
            THEN LET ty == st.namedTypes[oldName]
                 IN RenameSeq(
                      cfg,
                      [st EXCEPT !.heap[ty].Name = newName,
                                 !.namedTypes = Register(Unregister(@, oldName), newName, ty)],
                      Tail(ons))
            ELSE RenameSeq(cfg, st, Tail(ons))

\* lines 423-428: some target name is taken
RenameCollides(cfg, st) ==
    \E oldName \in DOMAIN cfg.RenameTypes : cfg.RenameTypes[oldName] \in DOMAIN st.namedTypes

\* A renameTypes that renames first and looks for taken target names
\* afterwards; the all-or-nothing property of the batch is tested against it.
RenameTypesLateCheck(cfg, st) ==
    IF DOMAIN cfg.RenameTypes = {} THEN {OkSt(st)}
    ELSE {IF RenameCollides(cfg, st)
          THEN ErrSt(RenameSeq(cfg, st, o), "cannot rename: type already exists")
          ELSE OkSt(RenameSeq(cfg, st, o))
          : o \in Perms(DOMAIN cfg.RenameTypes)}

\* renameTypes
RenameTypes(cfg, st) ==
    IF DOMAIN cfg.RenameTypes = {} THEN {OkSt(st)}
    ELSE IF RenameCollides(cfg, st) THEN {ErrSt(st, "cannot rename: type already exists")}
    ELSE {OkSt(RenameSeq(cfg, st, o)) : o \in Perms(DOMAIN cfg.RenameTypes)}

\* renameHandlers
RenameHandlers(cfg, st) ==
    IF DOMAIN cfg.RenameHandlers = {} THEN {OkSt(st)}
    ELSE {OkSt([st EXCEPT !.modules =
             [m \in DOMAIN st.modules |->
                [st.modules[m] EXCEPT !.HttpHandlers =
                   [i \in DOMAIN st.modules[m].HttpHandlers |->
                      LET h == st.modules[m].HttpHandlers[i]
                      IN IF h.Name \in DOMAIN cfg.RenameHandlers
                         THEN [h EXCEPT !.Name = cfg.RenameHandlers[h.Name]]
                         ELSE h]]]])}

(***************************************************************************)
(* topologicalSortTypes                                                    *)
(***************************************************************************)
Min(a, b) == IF a < b THEN a ELSE b

\* lines 808-832: the types addTypeToGraph(ty) visits next
GraphChildren(hp, ty) ==
    IF hp[ty].Kind = TyKindObject
    THEN {hp[ty].Fields[i].Type : i \in DOMAIN hp[ty].Fields}
         \cup {hp[hp[ty].Fields[i].Type].ElementType :
                 i \in {j \in DOMAIN hp[ty].Fields : hp[ty].Fields[j].Type # Nil}}
    ELSE IF hp[ty].Kind = TyKindArray THEN {hp[ty].ElementType}
    ELSE {}

RECURSIVE GraphNodes(_, _)
\* the types added to the graph from the set S (lines 790-838)
GraphNodes(hp, S) ==
    LET next == S \cup (UNION {GraphChildren(hp, ty) : ty \in S} \ {Nil})
    IN IF next = S THEN S ELSE GraphNodes(hp, next)

\* the edges set by g.SetEdge: from a dependency to its dependent
GraphEdges(hp, nodes) ==
    {e \in nodes \X nodes : e[1] \in GraphChildren(hp, e[2])}

\* g.From(v)
From(edges, v) == {e[2] : e \in {x \in edges : x[1] = v}}

RECURSIVE ReverseOrdered(_, _)
\* the `order` callback followed by ordered.Reverse: descending type name,
\* nodes of the same name in any order
ReverseOrdered(hp, S) ==
    IF S = {} THEN {<<>>}
    ELSE LET top == {n \in S : \A m \in S : ~StrLess(hp[n].Name, hp[m].Name)}
         IN {a \o b : a \in Perms(top), b \in ReverseOrdered(hp, S \ top)}

\* the map f with f[k] = x
SetAt(f, k, x) == [n \in DOMAIN f |-> IF n = k THEN x ELSE f[n]]

\* tarjan.strongconnect, its last part: v is a root, pop its component
PopComponent(t, v) ==
    IF t.lowLink[v] # t.indexTable[v] THEN t
    ELSE LET k == CHOOSE i \in DOMAIN t.stack : t.stack[i] = v
         IN [t EXCEPT !.stack = SubSeq(@, 1, k - 1),
                      !.sccs = Append(@, {t.stack[i] : i \in k..Len(t.stack)})]

\* t.lowLink[v] = min(t.lowLink[v], x)
LowerLink(t, v, x) == [t EXCEPT !.lowLink = SetAt(t.lowLink, v, Min(t.lowLink[v], x))]

RECURSIVE StrongConnect(_, _, _, _)
RECURSIVE VisitSuccessors(_, _, _, _, _)

VisitSuccessors(hp, edges, t, v, ws) ==
    IF Len(ws) = 0 THEN {t}
    ELSE LET w == Head(ws) IN
         IF t.indexTable[w] = 0
         THEN UNION {
                VisitSuccessors(hp, edges,
                                LowerLink(t2, v, t2.lowLink[w]), v, Tail(ws))
                : t2 \in StrongConnect(hp, edges, t, w) }
         ELSE IF w \in Range(t.stack)
         THEN VisitSuccessors(hp, edges, LowerLink(t, v, t.indexTable[w]), v, Tail(ws))
         ELSE VisitSuccessors(hp, edges, t, v, Tail(ws))

\* tarjan.strongconnect
StrongConnect(hp, edges, t, v) ==
    LET t1 == [index |-> t.index + 1,
               indexTable |-> SetAt(t.indexTable, v, t.index + 1),
               lowLink |-> SetAt(t.lowLink, v, t.index + 1),
               stack |-> Append(t.stack, v),
               sccs |-> t.sccs]
    IN UNION {
         {PopComponent(t2, v) : t2 \in VisitSuccessors(hp, edges, t1, v, o)}
         : o \in ReverseOrdered(hp, From(edges, v)) }

RECURSIVE TarjanRoots(_, _, _, _)
\* tarjanSCCstabilized, the loop over the ordered nodes
TarjanRoots(hp, edges, t, vs) ==
    IF Len(vs) = 0 THEN {t.sccs}
    ELSE IF t.indexTable[Head(vs)] # 0 THEN TarjanRoots(hp, edges, t, Tail(vs))
    ELSE UNION {TarjanRoots(hp, edges, t2, Tail(vs))
                : t2 \in StrongConnect(hp, edges, t, Head(vs))}

\* A sort that forgets to reverse Tarjan's component order (dependents
\* first); the ordering property of the module lists is tested against it.
Unreversed(s) == s

Reverse(s) == [i \in 1..Len(s) |-> s[Len(s) + 1 - i]]

\* topo.SortStabilized: sortedFrom(tarjanSCCstabilized(g, order)); a
\* component of more than one node makes the sort fail
SortStabilized(hp, nodes, edges) ==
    LET t0 == [index |-> 0, indexTable |-> [n \in nodes |-> 0], lowLink |-> [n \in nodes |-> 0],
               stack |-> <<>>, sccs |-> <<>>]
        runs == UNION {TarjanRoots(hp, edges, t0, o) : o \in ReverseOrdered(hp, nodes)}
    IN {[sorted |-> Reverse([i \in DOMAIN sccs |->
                               IF Cardinality(sccs[i]) = 1 THEN CHOOSE n \in sccs[i] : TRUE
                               ELSE Nil]),
         err |-> IF \E i \in DOMAIN sccs : Cardinality(sccs[i]) # 1
                 THEN "cycle detected in type dependencies" ELSE NoErr]
        : sccs \in runs}

ErrSelfEdge == "panic: simple: adding self edge"

\* topologicalSortTypes(entryTypes): the results it can return
TopologicalSortTypes(hp, entryTypes) ==
    IF entryTypes = {} THEN {[sorted |-> <<>>, err |-> NoErr]}
    ELSE LET nodes == GraphNodes(hp, entryTypes)
             edges == GraphEdges(hp, nodes)
         IN IF \E n \in nodes : <<n, n>> \in edges
            THEN {[sorted |-> <<>>, err |-> ErrSelfEdge]}
            ELSE SortStabilized(hp, nodes, edges)

(***************************************************************************)
(* assignTypesToModules                                                    *)
(***************************************************************************)
\* A walk that also enters the value type of a map; the treatment of map
\* values by the assignment is tested against it.
CollectChildrenAndValues(hp, t) ==
    IF hp[t].Kind = TyKindObject THEN {hp[t].Fields[i].Type : i \in DOMAIN hp[t].Fields}
    ELSE IF hp[t].Kind = TyKindArray THEN {hp[t].ElementType}
    ELSE IF hp[t].Kind = TyKindMap THEN {hp[t].ValueType}
    ELSE {}

\* lines 956-963: the types collectFromType(t) recurses into
CollectChildren(hp, t) ==
    IF hp[t].Kind = TyKindObject THEN {hp[t].Fields[i].Type : i \in DOMAIN hp[t].Fields}
    ELSE IF hp[t].Kind = TyKindArray THEN {hp[t].ElementType}
    ELSE {}

RECURSIVE CollectFrom(_, _)
CollectFrom(hp, S) ==
    LET next == S \cup (UNION {CollectChildren(hp, t) : t \in S} \ {Nil})
    IN IF next = S THEN S ELSE CollectFrom(hp, next)

\* collectHandlerTypes: the keys of deps
CollectHandlerTypes(hp, h) ==
    CollectFrom(hp,
        ({h.RequestBody, h.ResponseBody}
         \cup {h.HeaderParams[i].Type : i \in DOMAIN h.HeaderParams}
         \cup {h.PathParams[i].Type : i \in DOMAIN h.PathParams}
         \cup {h.QueryParams[i].Type : i \in DOMAIN h.QueryParams}) \ {Nil})

\* isTypeUsedInModule
IsTypeUsedInModule(hp, ty, module) ==
    \E i \in DOMAIN module.HttpHandlers : ty \in CollectHandlerTypes(hp, module.HttpHandlers[i])

RECURSIVE AssignExplicit(_, _, _)
\* lines 861-870 for the type names in the order `tns`
AssignExplicit(cfg, st, tns) ==
    IF Len(tns) = 0 THEN st
    ELSE LET ty == LookupType(st.namedTypes, Head(tns))
             moduleName == cfg.TypeModuleMap[Head(tns)]
         IN IF ty = Nil THEN AssignExplicit(cfg, st, Tail(tns))
            ELSE LET st1 == [st EXCEPT !.heap[ty].Module = moduleName]
                     st2 == IF moduleName \in DOMAIN st.modules
                            THEN [st1 EXCEPT !.modules[moduleName].Types = Append(@, ty)]
                            ELSE st1
                 IN AssignExplicit(cfg, st2, Tail(tns))

RECURSIVE AssignByUsage(_, _, _)
\* lines 883-895 for the registry keys in the order `tns`; deps are the
\* handler dependencies computed from the heap hp0 of lines 873-880
AssignByUsage(hp0, st, tns) ==
    IF Len(tns) = 0 THEN {st}
    ELSE LET ty == st.namedTypes[Head(tns)]
             users == {m \in DOMAIN st.modules : IsTypeUsedInModule(hp0, ty, st.modules[m])}
         IN IF st.heap[ty].Module # "" \/ users = {} THEN AssignByUsage(hp0, st, Tail(tns))
            ELSE UNION {
                   AssignByUsage(hp0,
                                 [st EXCEPT !.heap[ty].Module = st.modules[m].Name,
                                            !.modules[m].Types = Append(@, ty)],
                                 Tail(tns))
                   : m \in users }

\* lines 903-918: the entry types of a module, without duplicates
EntryTypes(module) ==
    ({module.HttpHandlers[i].RequestBody : i \in DOMAIN module.HttpHandlers}
     \cup {module.HttpHandlers[i].ResponseBody : i \in DOMAIN module.HttpHandlers}) \ {Nil}

\* A filter that keeps every sorted type; the absence of anonymous types
\* from the final list is tested against it.
KeepUnnamed(hp, sorted) == sorted

\* lines 925-928
FilterNamed(hp, sorted) == SelectSeq(sorted, LAMBDA ty : hp[ty].IsNamed)

RECURSIVE SortModules(_, _)
\* lines 898-931 for the module names in the order `ms`
SortModules(st, ms) ==
    IF Len(ms) = 0 THEN {OkSt(st)}
    ELSE IF Len(st.modules[Head(ms)].Types) = 0 THEN SortModules(st, Tail(ms))
    ELSE UNION {
           IF r.err # NoErr THEN {ErrSt(st, r.err)}
           ELSE SortModules([st EXCEPT !.modules[Head(ms)].Types = FilterNamed(st.heap, r.sorted)],
                            Tail(ms))
           : r \in TopologicalSortTypes(st.heap, EntryTypes(st.modules[Head(ms)])) }

\* assignTypesToModules
AssignTypesToModules(cfg, st) ==
    UNION {
      UNION {
        UNION {
          UNION {SortModules(st2, o3) : o3 \in Perms(DOMAIN st2.modules)}
          : st2 \in AssignByUsage(AssignExplicit(cfg, st, o1).heap,
                                  AssignExplicit(cfg, st, o1), o2) }
        : o2 \in Perms(DOMAIN st.namedTypes) }
      : o1 \in Perms(DOMAIN cfg.TypeModuleMap) }

(***************************************************************************)
(* Documents and configurations the runs are made on                       *)
(***************************************************************************)
NoContent == [n \in {} |-> NoSchema]

JsonContent(schema) == "application/json" :> schema

Param(name, in, schema) == [name |-> name, in |-> in, required |-> FALSE, schema |-> schema]

Operation(id, tags, params, req, resp) ==
    [operationID |-> id, tags |-> tags, parameters |-> params, requestBody |-> req,
     response200 |-> resp]

\* { data: <schema> }
Envelope(schema) == SObj("data" :> schema, {})

Document(schemas, paths) == [malformed |-> FALSE, schemas |-> schemas, paths |-> paths]

\* A -> B -> [C] and A -> C, handlers in two modules
DocChain ==
    Document(
      ("A" :> SObj(("b" :> SRef("B")) @@ ("c" :> SRef("C")), {"c"}))
      @@ ("B" :> SObj("cs" :> SArr(SRef("C")), {}))
      @@ ("C" :> SObj(NoProps, {})),
      ("/a" :> ("GET" :> Operation("Alpha", <<"m1">>,
                                   << Param("page_num", "query", SPrim("integer")) >>,
                                   NoContent, JsonContent(Envelope(SRef("A"))))))
      @@ ("/b" :> ("POST" :> Operation("Beta", <<"m1">>, <<>>, JsonContent(SRef("B")),
                                       JsonContent(SArr(SRef("C"))))))
      @@ ("/z" :> ("GET" :> Operation("Zebra", <<"m2">>, <<>>, NoContent,
                                      JsonContent(SRef("C"))))))

\* a component that refers to itself through a field
DocSelf ==
    Document(
      ("A" :> SObj("next" :> SRef("A"), {})),
      ("/a" :> ("GET" :> Operation("Alpha", <<>>, <<>>, NoContent, JsonContent(SRef("A"))))))

\* two object components with a direct field of each other's type
DocMutual ==
    Document(
      ("A" :> SObj("b" :> SRef("B"), {})) @@ ("B" :> SObj("a" :> SRef("A"), {})),
      ("/a" :> ("GET" :> Operation("Alpha", <<"m1">>, <<>>, NoContent, JsonContent(SRef("A"))))))

\* a component that refers to itself through an array element
DocSelfArray ==
    Document(
      ("A" :> SObj("kids" :> SArr(SRef("A")), {})),
      ("/a" :> ("GET" :> Operation("Alpha", <<"m1">>, <<>>, NoContent, JsonContent(SRef("A"))))))

\* a named map component referenced by two fields
DocMap ==
    Document(
      ("A" :> SObjOrdered(("x" :> SRef("M")) @@ ("y" :> SRef("M")), {}, <<"x", "y">>))
      @@ ("M" :> SMap(SRef("B")))
      @@ ("B" :> SObj("v" :> SPrim("string"), {})),
      ("/a" :> ("GET" :> Operation("Alpha", <<"m1">>, <<>>, NoContent, JsonContent(SRef("A")))))
      @@ ("/b" :> ("GET" :> Operation("Beta", <<"m2">>, <<>>, NoContent,
                                      JsonContent(Envelope(SRef("M")))))))

\* a component that is only a reference to another component; a type used
\* by the handlers of two modules
DocAlias ==
    Document(
      ("B" :> SObj("v" :> SPrim("string"), {})) @@ ("C" :> SRef("B"))
      @@ ("A" :> SObjOrdered(("c" :> SRef("C")) @@ ("n" :> SArr(SPrim("integer"))), {},
                             <<"c", "missing", "n">>)),
      ("/a" :> (("GET" :> Operation("Alpha", <<"m1">>, <<>>, NoContent, JsonContent(SRef("A"))))
                @@ ("PUT" :> Operation("Beta", <<"m1", "m2">>,
                                       <<Param("id", "path", SRef("C")),
                                         Param("trace", "header", SPrim("string")),
                                         Param("sid", "cookie", SPrim("string"))>>,
                                       ("multipart/form-data" :> SRef("A")),
                                       JsonContent(SRef("C")))))))

\* a reference to a component the document does not hold
DocMissing ==
    Document(
      ("A" :> SObj("x" :> SRef("D"), {})) @@ ("B" :> SUntyped),
      ("/a" :> ("GET" :> Operation("Alpha", <<"m1">>, <<>>, NoContent, JsonContent(SRef("A"))))))

\* a cookie parameter without a schema
DocNilParam ==
    Document(
      ("A" :> SObj("v" :> SPrim("number"), {})),
      ("/a" :> ("GET" :> Operation("Alpha", <<"m1">>, <<>>, NoContent, JsonContent(SRef("A")))))
      @@ ("/b" :> ("GET" :> Operation("Beta", <<"m2">>, <<Param("q", "cookie", NoSchema)>>,
                                      NoContent, NoContent))))

\* pagination shapes: A is a page of B with two array fields, the second
\* without an item schema; Alpha is a paginated GET, Gamma an untagged GET
\* with the single parameter page_num
DocPaged ==
    Document(
      ("A" :> SObjOrdered(("total" :> SRef("B")) @@ ("items" :> SArr(SRef("B")))
                          @@ ("more" :> SArr(NoSchema)), {"items"},
                          <<"total", "items", "more">>))
      @@ ("B" :> SObj(NoProps, {})),
      ("/a" :> ("GET" :> Operation("Alpha", <<"m1">>,
                                   <<Param("page_num", "query", SRef("B")),
                                     Param("page_size", "query", SRef("B"))>>,
                                   NoContent, JsonContent(Envelope(SRef("A"))))))
      @@ ("/g" :> ("GET" :> Operation("Gamma", <<>>,
                                      <<Param("page_num", "query", SRef("B"))>>,
                                      NoContent, JsonContent(Envelope(SRef("A")))))))

\* four handlers in one module, two of them with the operationId Beta; C
\* holds bookkeeping fields only, one of them an array; Beta of /a is a POST
\* with an XML request body, Zebra a GET with two pagination parameters
\* whose response has no `data` field
DocOrder ==
    Document(
      ("B" :> SObj(NoProps, {}))
      @@ ("C" :> SObjOrdered(("code" :> SArr(SRef("B"))) @@ ("msg" :> SRef("B")), {},
                             <<"code", "msg">>)),
      ("/a" :> (("GET" :> Operation("Alpha", <<"m1">>, <<>>, NoContent, JsonContent(SRef("B"))))
                @@ ("POST" :> Operation("Beta", <<"m1">>,
                                        <<Param("page_num", "query", SRef("B")),
                                          Param("page_size", "query", SRef("B"))>>,
                                        ("application/xml" :> SRef("B")),
                                        JsonContent(SRef("C"))))))
      @@ ("/z" :> (("GET" :> Operation("Zebra", <<"m1">>,
                                       <<Param("page_index", "query", SRef("B")),
                                         Param("page_num", "query", SRef("B"))>>,
                                       NoContent, JsonContent(SRef("C"))))
                @@ ("POST" :> Operation("Beta", <<"m1">>, <<>>, NoContent,
                                        JsonContent(SRef("B")))))))

\* two types that hold Z inside an inline object each, returned by two
\* handlers of one module
DocTies ==
    Document(
      ("Z" :> SObj(NoProps, {}))
      @@ ("A" :> SObj("x" :> SObj("z" :> SRef("Z"), {}), {}))
      @@ ("B" :> SObj("y" :> SObj("z" :> SRef("Z"), {}), {})),
      ("/a" :> (("GET" :> Operation("Alpha", <<"m1">>, <<>>, NoContent, JsonContent(SRef("A"))))
                @@ ("POST" :> Operation("Beta", <<"m1">>, <<>>, NoContent,
                                        JsonContent(SRef("B")))))))

\* a document the loader rejects
DocMalformed == [malformed |-> TRUE, schemas |-> NoProps, paths |-> NoProps]

Docs ==
    {DocChain, DocSelf, DocMutual, DocSelfArray, DocMap, DocAlias, DocMissing, DocNilParam,
     DocPaged, DocOrder, DocTies, DocMalformed}

\* NewParser(nil): &ModuleConfig{}
EmptyConfig ==
    [TypeModuleMap |-> NoMap, GenerateUnnamedResponseType |-> "nil",
     ChangeHttpHandlerResponseType |-> NoMap, RenameTypes |-> NoMap, RenameHandlers |-> NoMap,
     ChangeFields |-> NoMap, HandlerOrdering |-> NoMap]

Modification(requirement, default) == <<[Requirement |-> requirement, Default |-> default]>>

\* every rule category configured, all of it applicable to DocChain
ConfigAll ==
    [TypeModuleMap |-> ("C" :> "m2"),
     GenerateUnnamedResponseType |-> "resp",
     ChangeHttpHandlerResponseType |-> ("Zebra" :> "B"),
     RenameTypes |-> ("A" :> "Z"),
     RenameHandlers |-> ("Zebra" :> "Alpha"),
     ChangeFields |-> ("A" :> (("c" :> Modification(FieldRequirementOptional, "0"))
                               @@ ("b" :> Modification(FieldRequirementRequired, ""))
                               @@ ("n" :> <<>>))),
     HandlerOrdering |-> ("m1" :> <<"Beta", "Alpha">>)]

\* a rename batch with one target name that is taken
ConfigRenameCollision ==
    [EmptyConfig EXCEPT !.RenameTypes = ("A" :> "Z") @@ ("C" :> "B"),
                        !.GenerateUnnamedResponseType = "resp"]

\* field overrides, one of them on a type that does not exist
ConfigMissingType ==
    [EmptyConfig EXCEPT
       !.ChangeFields = ("A" :> ("c" :> Modification(FieldRequirementOptional, "1")))
                        @@ ("D" :> ("x" :> Modification(FieldRequirementRequired, "")))]

\* field overrides, one of them on a field that does not exist
ConfigMissingField ==
    [EmptyConfig EXCEPT
       !.ChangeFields = ("A" :> (("b" :> Modification(FieldRequirementRequired, ""))
                                 @@ ("zz" :> Modification(FieldRequirementNoChange, "x"))))]

\* response substitutions, one of them to a type that does not exist
ConfigMissingResponse ==
    [EmptyConfig EXCEPT
       !.ChangeHttpHandlerResponseType = ("Alpha" :> "B") @@ ("Beta" :> "D")]

\* a handler ordering for a module that does not exist
ConfigMissingModule ==
    [EmptyConfig EXCEPT
       !.HandlerOrdering = ("m1" :> <<"Beta">>) @@ ("default" :> <<"Alpha">>)
                           @@ ("m1.m2" :> <<"Beta">>)]

\* a rename batch with two entries of the same destination name
ConfigRenameMerge ==
    [EmptyConfig EXCEPT !.RenameTypes = ("Z" :> "D") @@ ("A" :> "D")]

\* a handler ordering that names two of the handlers of m1, and a type
\* mapped to the module m2
ConfigOrder ==
    [EmptyConfig EXCEPT !.HandlerOrdering = ("m1" :> <<"Beta", "Alpha">>),
                        !.TypeModuleMap = ("A" :> "m2")]

Configs ==
    {EmptyConfig, ConfigAll, ConfigRenameCollision, ConfigMissingType, ConfigMissingField,
     ConfigMissingResponse, ConfigMissingModule, ConfigOrder, ConfigRenameMerge}

(***************************************************************************)
(* ParseOpenAPI as a state machine: pc is the stage that runs next.        *)
(***************************************************************************)
NoModules == [n \in {} |-> NewModule("")]

NoTypes == [n \in {} |-> Nil]

\* no value returned yet
NoReturn == [nilMap |-> TRUE, modules |-> NoModules, err |-> NoErr]

\* An error return that hands out the parser's module map (`return
\* p.modules, err`); the nil-on-error property is tested against it.
ReturnPartial(pmodules, err) == [nilMap |-> FALSE, modules |-> pmodules, err |-> err]

\* `return nil, err`
ReturnError(pmodules, err) == [nilMap |-> TRUE, modules |-> NoModules, err |-> err]

\* `return p.modules, nil`
ReturnModules(pmodules) == [nilMap |-> FALSE, modules |-> pmodules, err |-> NoErr]

\* A ParseOpenAPI that renames the handlers before the types; the stage
\* order property is tested against it.
NextStageRenamesSwapped(stage) ==
    CASE stage = "LoadFromData" -> "processNamedTypes"
      [] stage = "processNamedTypes" -> "processOperations"
      [] stage = "processOperations" -> "generateUnnamedResponseTypes"
      [] stage = "generateUnnamedResponseTypes" -> "changeFieldRequirements"
      [] stage = "changeFieldRequirements" -> "orderHandlers"
      [] stage = "orderHandlers" -> "changeResponseTypes"
      [] stage = "changeResponseTypes" -> "renameHandlers"
      [] stage = "renameHandlers" -> "renameTypes"
      [] stage = "renameTypes" -> "assignTypesToModules"
      [] stage = "assignTypesToModules" -> "returned"

\* the order of the calls in ParseOpenAPI
NextStage(stage) ==
    CASE stage = "LoadFromData" -> "processNamedTypes"
      [] stage = "processNamedTypes" -> "processOperations"
      [] stage = "processOperations" -> "generateUnnamedResponseTypes"
      [] stage = "generateUnnamedResponseTypes" -> "changeFieldRequirements"
      [] stage = "changeFieldRequirements" -> "orderHandlers"
      [] stage = "orderHandlers" -> "changeResponseTypes"
      [] stage = "changeResponseTypes" -> "renameTypes"
      [] stage = "renameTypes" -> "renameHandlers"
      [] stage = "renameHandlers" -> "assignTypesToModules"
      [] stage = "assignTypesToModules" -> "returned"

\* a Go runtime abort: no value is returned
Fatal(err) == err \in {ErrStackOverflow, ErrSelfEdge}

PState == [heap |-> heap, namedTypes |-> namedTypes, modules |-> modules]

\* the end of a stage that ended in r: the next stage on success,
\* `return nil, err` on an error, the end of the process on a runtime abort
EndStage(stage, r) ==
    IF Fatal(r.err)
    THEN /\ pc' = "crashed"
         /\ UNCHANGED <<heap, namedTypes, modules, ret>>
    ELSE /\ heap' = r.heap
         /\ namedTypes' = r.namedTypes
         /\ modules' = r.modules
         /\ IF r.err # NoErr
            THEN pc' = "returned" /\ ret' = ReturnError(r.modules, r.err)
            ELSE /\ pc' = NextStage(stage)
                 /\ ret' = IF NextStage(stage) = "returned" THEN ReturnModules(r.modules) ELSE ret

\* the rendering a run's result is compared by: per module the handler
\* names and the type names in order, and per listed type its field names
Render(mods, hp) ==
    [m \in DOMAIN mods |->
       [handlers |-> [i \in DOMAIN mods[m].HttpHandlers |-> mods[m].HttpHandlers[i].Name],
        types |-> [i \in DOMAIN mods[m].Types |->
                     [name |-> hp[mods[m].Types[i]].Name,
                      fields |-> [j \in DOMAIN hp[mods[m].Types[i]].Fields |->
                                    hp[mods[m].Types[i]].Fields[j].Name]]]]]

\* the Module of every registered type, as a caller reads it after a run
Owners(nt, hp) == [k \in DOMAIN nt |-> hp[nt[k]].Module]

Init ==
    /\ doc \in Docs
    /\ config \in Configs
    /\ heap = <<>>
    /\ namedTypes = NoTypes
    /\ modules = NoModules
    /\ pc = "LoadFromData"
    /\ ret = NoReturn
    /\ prev = <<>>
    /\ generated = <<>>

\* loader.LoadFromData (lines 462-467)
LoadFromData ==
    /\ pc = "LoadFromData"
    /\ EndStage("LoadFromData",
                PRes(heap, namedTypes, modules,
                     IF doc.malformed THEN "failed to parse OpenAPI document" ELSE NoErr))
    /\ UNCHANGED <<doc, config, prev, generated>>

ProcessNamedTypesStep ==
    /\ pc = "processNamedTypes"
    /\ \E r \in ProcessNamedTypes(doc, PState) :
         EndStage("processNamedTypes", PRes(r.heap, r.namedTypes, modules, r.err))
    /\ UNCHANGED <<doc, config, prev, generated>>

ProcessOperationsStep ==
    /\ pc = "processOperations"
    /\ \E r \in ProcessOperations(doc, PState) : EndStage("processOperations", r)
    /\ UNCHANGED <<doc, config, prev, generated>>

GenerateUnnamedResponseTypesStep ==
    /\ pc = "generateUnnamedResponseTypes"
    /\ \E r \in GenerateUnnamedResponseTypes(config, PState) :
         EndStage("generateUnnamedResponseTypes", r)
    /\ UNCHANGED <<doc, config, prev, generated>>

ChangeFieldRequirementsStep ==
    /\ pc = "changeFieldRequirements"
    /\ \E r \in ChangeFieldRequirements(config, PState) : EndStage("changeFieldRequirements", r)
    /\ UNCHANGED <<doc, config, prev, generated>>

OrderHandlersStep ==
    /\ pc = "orderHandlers"
    /\ \E r \in OrderHandlers(config, PState) : EndStage("orderHandlers", r)
    /\ UNCHANGED <<doc, config, prev, generated>>

ChangeResponseTypesStep ==
    /\ pc = "changeResponseTypes"
    /\ \E r \in ChangeResponseTypes(config, PState) : EndStage("changeResponseTypes", r)
    /\ UNCHANGED <<doc, config, prev, generated>>

RenameTypesStep ==
    /\ pc = "renameTypes"
    /\ \E r \in RenameTypes(config, PState) : EndStage("renameTypes", r)
    /\ UNCHANGED <<doc, config, prev, generated>>

RenameHandlersStep ==
    /\ pc = "renameHandlers"
    /\ \E r \in RenameHandlers(config, PState) : EndStage("renameHandlers", r)
    /\ UNCHANGED <<doc, config, prev, generated>>

AssignTypesToModulesStep ==
    /\ pc = "assignTypesToModules"
    /\ \E r \in AssignTypesToModules(config, PState) : EndStage("assignTypesToModules", r)
    /\ UNCHANGED <<doc, config, prev, generated>>

\* a second run on the same document and configuration: NewParser and
\* ParseOpenAPI again, the first run's result kept for comparison
Rerun ==
    /\ pc = "returned"
    /\ ret.err = NoErr
    /\ prev = <<>>
    /\ prev' = <<Render(ret.modules, heap), Owners(namedTypes, heap)>>
    /\ heap' = <<>>
    /\ namedTypes' = NoTypes
    /\ modules' = NoModules
    /\ pc' = "LoadFromData"
    /\ ret' = NoReturn
    /\ generated' = <<>>
    /\ UNCHANGED <<doc, config>>

\* Generator.Generate after a successful ParseOpenAPI (lines 209-223): every
\* module is converted
ConvertModulesStep ==
    /\ pc = "returned"
    /\ ret.err = NoErr
    /\ generated = <<>>
    /\ generated' = <<[m \in DOMAIN ret.modules |-> ConvertModule(ret.modules[m], heap)]>>
    /\ UNCHANGED <<doc, config, heap, namedTypes, modules, pc, ret, prev>>

Next ==
    \/ LoadFromData
    \/ ProcessNamedTypesStep
    \/ ProcessOperationsStep
    \/ GenerateUnnamedResponseTypesStep
    \/ ChangeFieldRequirementsStep
    \/ OrderHandlersStep
    \/ ChangeResponseTypesStep
    \/ RenameTypesStep
    \/ RenameHandlersStep
    \/ AssignTypesToModulesStep
    \/ Rerun
    \/ ConvertModulesStep

Spec == Init /\ [][Next]_vars

(***************************************************************************)
(* Properties                                                              *)
(***************************************************************************)
Succeeded == pc = "returned" /\ ret.err = NoErr

Failed == pc = "returned" /\ ret.err # NoErr

\* the types t refers to directly: field types of an object, the element
\* type of an array; map value types are not followed
DirectDeps(hp, t) ==
    (IF hp[t].Kind = TyKindObject THEN {hp[t].Fields[i].Type : i \in DOMAIN hp[t].Fields}
     ELSE IF hp[t].Kind = TyKindArray THEN {hp[t].ElementType}
     ELSE {}) \ {Nil}

RECURSIVE Closure(_, _)
Closure(hp, S) ==
    LET next == S \cup UNION {DirectDeps(hp, t) : t \in S}
    IN IF next = S THEN S ELSE Closure(hp, next)

\* the named types reachable from t through fields and array elements
NamedReachable(hp, t) == {u \in Closure(hp, DirectDeps(hp, t)) : hp[u].IsNamed}

\* C1: after a successful ParseOpenAPI, in every module's Types list every
\* named type reachable from the type at position i (through object fields
\* and array elements) stands at a position before i.
C1_DependenciesPrecede ==
    Succeeded =>
      \A m \in DOMAIN ret.modules :
        LET ts == ret.modules[m].Types
        IN \A i \in DOMAIN ts :
             \A u \in NamedReachable(heap, ts[i]) : \E j \in 1..(i - 1) : ts[j] = u

\* C1, its case: a successful run whose module list holds a type with two
\* named dependencies, one of them depending on the other
C1_Witness ==
    /\ Succeeded
    /\ \E m \in DOMAIN ret.modules :
         \E i \in DOMAIN ret.modules[m].Types :
           \E u \in NamedReachable(heap, ret.modules[m].Types[i]) :
             NamedReachable(heap, u) # {}

\* component `a` is an object with a field whose schema is `$ref: b`
HasDirectRef(d, a, b) ==
    /\ a \in DOMAIN d.schemas
    /\ Len(d.schemas[a]) = 1
    /\ d.schemas[a][1].type = "object"
    /\ \E f \in DOMAIN d.schemas[a][1].props : d.schemas[a][1].props[f] = SRef(b)

\* component `a` is an object with a field whose schema is an array of `$ref: b`
HasArrayRef(d, a, b) ==
    /\ a \in DOMAIN d.schemas
    /\ Len(d.schemas[a]) = 1
    /\ d.schemas[a][1].type = "object"
    /\ \E f \in DOMAIN d.schemas[a][1].props : d.schemas[a][1].props[f] = SArr(SRef(b))

MutualDirect(d) ==
    ~d.malformed /\ \E a, b \in DOMAIN d.schemas :
                      a # b /\ HasDirectRef(d, a, b) /\ HasDirectRef(d, b, a)

SelfReferring(d) ==
    ~d.malformed /\ \E a \in DOMAIN d.schemas : HasDirectRef(d, a, a) \/ HasArrayRef(d, a, a)

\* C2: on a document with two object components that have a direct field
\* of each other's type, ParseOpenAPI does not recurse without bound and
\* does not return a module list: it can only end by returning an error.
C2_MutualReferenceIsAnError ==
    MutualDirect(doc) => (pc # "crashed" /\ ~Succeeded)

\* C3: convertSchema terminates on a document with a component that refers
\* to itself through a field or an array element (the conversion never
\* exhausts the stack).
C3_SelfReferenceTerminates ==
    SelfReferring(doc) => pc # "crashed"

\* C4: every field whose type carries the name of a registered component
\* points to the node the registry holds under that name: no second node
\* exists for a named component, whatever its kind and the processing order.
C4_OneNodePerComponent ==
    \A o \in DOMAIN heap : \A k \in DOMAIN heap[o].Fields :
      LET t == heap[o].Fields[k].Type
      IN (t # Nil /\ heap[t].IsNamed /\ heap[t].Name \in DOMAIN namedTypes)
           => namedTypes[heap[t].Name] = t

\* C5: a second successful run on the same document and configuration
\* renders the same handler sequences, type sequences and field orders as
\* the first.
C5_RunsAgree ==
    (Succeeded /\ prev # <<>>) => Render(ret.modules, heap) = prev[1]

\* a target name of the rename batch is a key of the registry
TargetTaken ==
    \E n \in DOMAIN config.RenameTypes : config.RenameTypes[n] \in DOMAIN namedTypes

\* C6: when a target name of the RenameTypes batch is already registered,
\* renameTypes returns an error and renames nothing: the registry and every
\* type (its Name included) are as before.
C6_RenameAllOrNothing ==
    [][(pc = "renameTypes" /\ TargetTaken)
         => (pc' = "returned" /\ ret'.err # NoErr /\ namedTypes' = namedTypes /\ heap' = heap)]_vars

\* C6, its case: renameTypes has refused a batch with a taken target name
C6_Witness ==
    /\ Failed
    /\ ret.err = "cannot rename: type already exists"
    /\ TargetTaken
    /\ \E n \in DOMAIN config.RenameTypes : n \in DOMAIN namedTypes

\* the stages in the order the specification gives
StageOrder ==
    << "LoadFromData", "processNamedTypes", "processOperations",
       "generateUnnamedResponseTypes", "changeFieldRequirements", "orderHandlers",
       "changeResponseTypes", "renameTypes", "renameHandlers", "assignTypesToModules" >>

\* C7: a stage is entered only from the stage before it in the order
\* unnamed response names, field overrides, handler order, response
\* substitution, type rename, handler rename, module assignment; a run
\* returns successfully only out of the last stage, and after a failed
\* stage no stage runs.
C7_StagesInOrder ==
    [][/\ (pc' # pc /\ pc # "returned" /\ pc' \in Range(StageOrder))
            => \E i \in 1..(Len(StageOrder) - 1) : pc = StageOrder[i] /\ pc' = StageOrder[i + 1]
       /\ (pc' # pc /\ pc' = "returned" /\ ret'.err = NoErr) => pc = "assignTypesToModules"
       /\ Failed => pc' = pc
       /\ (pc = "returned" /\ pc' # pc) => pc' = StageOrder[1]]_vars

\* C7, its case: a run with every rule category configured has gone
\* through all the stages
C7_Witness == Succeeded /\ config = ConfigAll /\ heap # <<>>

\* C8: whenever ParseOpenAPI returns an error, the module map it returns
\* is nil.
C8_NilModulesOnError ==
    Failed => (ret.nilMap /\ ret.modules = NoModules)

\* C8, its case: an error returned when the parser already held modules
C8_Witness == Failed /\ DOMAIN modules # {}

\* C9: a rule stage that fails on a configuration error has applied none
\* of its changes: a failed changeFieldRequirements leaves every field as
\* it was, a failed changeResponseTypes leaves every handler's ResponseBody
\* as it was.
C9_FailedStageChangesNothing ==
    [][/\ (pc = "changeFieldRequirements" /\ pc' = "returned") => heap' = heap
       /\ (pc = "changeResponseTypes" /\ pc' = "returned") => modules' = modules]_vars

AllHandlers ==
    UNION {{modules[m].HttpHandlers[i] : i \in DOMAIN modules[m].HttpHandlers}
           : m \in DOMAIN modules}

\* the declared response body is an object with a field named `data`
HasDataField(h) ==
    /\ h.ResponseBody # Nil
    /\ heap[h.ResponseBody].Kind = TyKindObject
    /\ \E i \in DOMAIN heap[h.ResponseBody].Fields : heap[h.ResponseBody].Fields[i].Name = "data"

\* the type of the first field named `data`
DataType(h) ==
    LET fs == heap[h.ResponseBody].Fields
    IN fs[CHOOSE i \in DOMAIN fs : fs[i].Name = "data" /\ \A j \in 1..(i - 1) : fs[j].Name # "data"].Type

\* C10 as stated: the actual response body is the type of the `data` field
\* when the declared body is an object with such a field, and otherwise the
\* declared body itself.
C10_ActualBodyIsDataOrDeclared ==
    \A h \in AllHandlers :
      GetActualResponseBody(h, heap) = IF HasDataField(h) THEN DataType(h) ELSE h.ResponseBody

\* C10 amended: GetActualResponseBody is the type of the `data` field when
\* the declared body is an object with such a field and nil otherwise; the
\* response type convertHandler converts is that type when it is not nil,
\* and otherwise the declared body.
C10_ActualBodyIsDataOrNil ==
    \A h \in AllHandlers :
      /\ GetActualResponseBody(h, heap) = IF HasDataField(h) THEN DataType(h) ELSE Nil
      /\ ResponseTypeSource(h, heap) =
           IF HasDataField(h) /\ DataType(h) # Nil THEN DataType(h) ELSE h.ResponseBody

\* C10, its case: one handler whose body unwraps to its `data` field, one
\* whose declared object body has no `data` field and one whose body is
\* not an object
C10_Witness ==
    /\ \E h \in AllHandlers : HasDataField(h) /\ GetActualResponseBody(h, heap) # Nil
    /\ \E h \in AllHandlers :
         /\ h.ResponseBody # Nil /\ heap[h.ResponseBody].Kind = TyKindObject /\ ~HasDataField(h)
         /\ GetActualResponseBody(h, heap) = Nil /\ ResponseTypeSource(h, heap) = h.ResponseBody
    /\ \E h \in AllHandlers :
         h.ResponseBody # Nil /\ heap[h.ResponseBody].Kind = TyKindArray

\* candidate lists GetPageInfo is called with (the empty list stands for
\* the defaults)
CandidateLists ==
    {<<>>, <<"page_num">>, <<"page_size", "page_num">>, <<"page_index", "page_num">>,
     <<"page_num", "page_size">>, <<"cursor">>}

QueryNames(h) == {h.QueryParams[i].Name : i \in DOMAIN h.QueryParams}

\* the least element of a non-empty set of positions
First(S) == CHOOSE i \in S : \A j \in S : i <= j

\* what GetPageInfo is to return for h: a handler is paginated iff it is a
\* GET, an index candidate and a size candidate other than the chosen index
\* are query parameter names, and the type of the `data` field of its
\* response is an object with an array field
ExpectedPageInfo(h, ic, sc) ==
    LET names == QueryNames(h)
        idxs == {i \in DOMAIN ic : ic[i] \in names}
        sizes == IF idxs = {} THEN {}
                 ELSE {j \in DOMAIN sc : sc[j] \in names /\ sc[j] # ic[First(idxs)]}
        body == IF HasDataField(h) THEN DataType(h) ELSE Nil
        arrays == IF body = Nil \/ heap[body].Kind # TyKindObject THEN {}
                  ELSE {k \in DOMAIN heap[body].Fields :
                          heap[heap[body].Fields[k].Type].Kind = TyKindArray}
    IN IF h.Method = "GET" /\ idxs # {} /\ sizes # {} /\ arrays # {}
       THEN <<[ItemType |-> heap[heap[body].Fields[First(arrays)].Type].ElementType,
               PageIndexName |-> ic[First(idxs)],
               PageSizeName |-> sc[First(sizes)]]>>
       ELSE NoPageInfo

C12_IndexAndSizeDiffer ==
    \A h \in AllHandlers :
      /\ \A ic \in CandidateLists : \A sc \in CandidateLists :
           LET info == GetPageInfo(h, heap, ic, sc)
           IN info # NoPageInfo =>
                /\ info[1].PageIndexName # info[1].PageSizeName
                /\ {info[1].PageIndexName, info[1].PageSizeName} \subseteq QueryNames(h)
      /\ (QueryNames(h) \cap {"page_index", "page_num", "page_size"} = {"page_num"})
           => GetPageInfo(h, heap, <<>>, <<>>) = NoPageInfo

\* C12, its case: the generator has converted a GET handler whose only
\* query parameter is page_num and whose response data has an array field,
\* and found it not paginated
C12_Witness ==
    /\ generated # <<>>
    /\ \E m \in DOMAIN ret.modules : \E i \in DOMAIN ret.modules[m].HttpHandlers :
         LET h == ret.modules[m].HttpHandlers[i]
         IN /\ h.Method = "GET" /\ QueryNames(h) = {"page_num"}
            /\ HasDataField(h)
            /\ \E k \in DOMAIN heap[DataType(h)].Fields :
                 heap[heap[DataType(h)].Fields[k].Type].Kind = TyKindArray
            /\ ~generated[1][m].Operations[i].IsPaged

\* t is an object with at least one field whose field names all lie in names
OnlyFieldsOf(t, names) ==
    /\ t # Nil
    /\ heap[t].Kind = TyKindObject
    /\ Len(heap[t].Fields) > 0
    /\ \A i \in DOMAIN heap[t].Fields : heap[t].Fields[i].Name \in names

\* C13 as stated: HasOnlyStatusFields is true iff the type is an object with
\* at least one field whose field names all belong to the set code,
\* message, detail, log-id.
C13_StatusOnlyIffNamedInSpec ==
    \A t \in {Nil} \cup DOMAIN heap :
      HasOnlyStatusFields(t, heap) <=> OnlyFieldsOf(t, {"code", "message", "detail", "log-id"})

\* C13 amended: HasOnlyStatusFields is true iff the type is an object with
\* at least one field whose field names all belong to the set code, msg,
\* detail, logid; it is false for a nil type, a non-object type, an object
\* without fields and an object with a field outside the set.  The
\* generator marks exactly these classes as pass-only.
C13_StatusOnlyIffBookkeeping ==
    /\ \A t \in {Nil} \cup DOMAIN heap :
         HasOnlyStatusFields(t, heap) <=> OnlyFieldsOf(t, {"code", "msg", "detail", "logid"})
    /\ generated # <<>> =>
         \A m \in DOMAIN generated[1] : \A i \in DOMAIN generated[1][m].Classes :
           generated[1][m].Classes[i].IsPass
             <=> \E k \in DOMAIN ret.modules[m].Types :
                   /\ heap[ret.modules[m].Types[k]].Name = generated[1][m].Classes[i].Name
                   /\ OnlyFieldsOf(ret.modules[m].Types[k], {"code", "msg", "detail", "logid"})

\* C13, its case: the generator has converted a module with a class of the
\* fields code and msg, which it marks pass-only, and a class without
\* fields, which it does not; the heap also holds a non-object type and an
\* object with a field outside the set
C13_Witness ==
    /\ generated # <<>>
    /\ \E m \in DOMAIN generated[1] :
         /\ \E i \in DOMAIN generated[1][m].Classes :
              /\ generated[1][m].Classes[i].IsPass
              /\ \E k \in DOMAIN ret.modules[m].Types :
                   LET t == ret.modules[m].Types[k]
                   IN /\ heap[t].Name = generated[1][m].Classes[i].Name
                      /\ {heap[t].Fields[j].Name : j \in DOMAIN heap[t].Fields} = {"code", "msg"}
         /\ \E i \in DOMAIN generated[1][m].Classes :
              /\ ~generated[1][m].Classes[i].IsPass
              /\ \E k \in DOMAIN ret.modules[m].Types :
                   LET t == ret.modules[m].Types[k]
                   IN /\ heap[t].Name = generated[1][m].Classes[i].Name
                      /\ heap[t].Kind = TyKindObject /\ Len(heap[t].Fields) = 0
    /\ \E t \in DOMAIN heap : heap[t].Kind = TyKindArray

\* new is old rearranged: handlers of the same name keep their relative
\* order, the handlers named in list come first in the order of the list,
\* the others follow in ascending order of name
OrderedAsConfigured(old, new, list) ==
    LET Listed(h) == \E k \in DOMAIN list : list[k] = h.Name
        Pos(h) == CHOOSE k \in DOMAIN list : list[k] = h.Name
    IN /\ Len(new) = Len(old)
       /\ \E f \in [DOMAIN old -> DOMAIN new] :
            /\ \A i, j \in DOMAIN old : i # j => f[i] # f[j]
            /\ \A i \in DOMAIN old : new[f[i]] = old[i]
            /\ \A i, j \in DOMAIN old : (i < j /\ old[i].Name = old[j].Name) => f[i] < f[j]
       /\ \A i, j \in DOMAIN new :
            i < j =>
              /\ Listed(new[j]) => Listed(new[i])
              /\ Listed(new[j]) => Pos(new[i]) <= Pos(new[j])
              /\ ~Listed(new[i]) => ~StrLess(new[j].Name, new[i].Name)

HandlerNames(hs) == [i \in DOMAIN hs |-> hs[i].Name]

\* C14: when orderHandlers succeeds, the handlers of every module with a
\* HandlerOrdering entry are a permutation of what they were, with the
\* handlers named in the list first, in list order (handlers of equal
\* position in their original relative order), and the others after them in
\* ascending order of name; [Zebra, Alpha, Beta] with the list
\* [Beta, Alpha] becomes [Beta, Alpha, Zebra].
C14_HandlersOrderedAsConfigured ==
    [][(pc = "orderHandlers" /\ pc' = "changeResponseTypes") =>
         \A m \in DOMAIN config.HandlerOrdering :
           /\ OrderedAsConfigured(modules[m].HttpHandlers, modules'[m].HttpHandlers,
                                  config.HandlerOrdering[m])
           /\ (/\ HandlerNames(modules[m].HttpHandlers) \in
                    {<<"Zebra", "Alpha", "Beta">>, <<"Zebra", "Beta", "Alpha", "Beta">>}
               /\ config.HandlerOrdering[m] = <<"Beta", "Alpha">>)
                => /\ HandlerNames(modules'[m].HttpHandlers) \in
                        {<<"Beta", "Alpha", "Zebra">>, <<"Beta", "Beta", "Alpha", "Zebra">>}
                   /\ modules'[m].HttpHandlers[1].Path = modules[m].HttpHandlers[2].Path]_vars

\* C14, its case: orderHandlers has sorted Zebra, Alpha and two handlers
\* named Beta under the list [Beta, Alpha]: the Beta of /z, the Beta of /a,
\* Alpha, Zebra
C14_Witness ==
    /\ pc = "changeResponseTypes"
    /\ "m1" \in DOMAIN config.HandlerOrdering
    /\ config.HandlerOrdering["m1"] = <<"Beta", "Alpha">>
    /\ "m1" \in DOMAIN modules
    /\ HandlerNames(modules["m1"].HttpHandlers) = <<"Beta", "Beta", "Alpha", "Zebra">>
    /\ modules["m1"].HttpHandlers[1].Path = "/z"
    /\ modules["m1"].HttpHandlers[2].Path = "/a"

\* C15: after a successful ParseOpenAPI no type is in the Types list of two
\* different modules, a named type reachable from handlers of both modules
\* included.
C15_TypeListsDisjoint ==
    Succeeded =>
      \A m \in DOMAIN ret.modules : \A n \in DOMAIN ret.modules :
        m # n =>
          {ret.modules[m].Types[i] : i \in DOMAIN ret.modules[m].Types}
            \cap {ret.modules[n].Types[i] : i \in DOMAIN ret.modules[n].Types} = {}

\* C16: after generateUnnamedResponseTypes every response type that was
\* unnamed and for which the naming callback returned (name, true) has that
\* name, has IsNamed set, is registered in namedTypes under that name and is
\* in its module's type list; every other response node is unchanged.
C16_GeneratedTypesAreRegistered ==
    [][(pc = "generateUnnamedResponseTypes" /\ pc' = "changeFieldRequirements") =>
         \A m \in DOMAIN modules : \A i \in DOMAIN modules[m].HttpHandlers :
           LET h == modules[m].HttpHandlers[i]
               body == h.ResponseBody
               g == CallGenerate(config.GenerateUnnamedResponseType, h, heap)
           IN IF body # Nil /\ ~heap[body].IsNamed /\ g.gen
              THEN /\ heap'[body].Name = g.name
                   /\ heap'[body].IsNamed
                   /\ g.name \in DOMAIN namedTypes'
                   /\ namedTypes'[g.name] = body
                   /\ \E k \in DOMAIN modules'[m].Types : modules'[m].Types[k] = body
              ELSE body # Nil => heap'[body] = heap[body]]_vars

\* the field overrides of the configuration: type name, field name and
\* modification of every entry that carries a modification
FieldOverrides ==
    {<<tn, fn>> \in UNION {{<<t, f>> : f \in DOMAIN config.ChangeFields[t]}
                           : t \in DOMAIN config.ChangeFields} :
       config.ChangeFields[tn][fn] # <<>>}

\* an override names a type that is not registered or a field the type
\* does not have
OverrideMisses ==
    \/ \E tn \in DOMAIN config.ChangeFields : tn \notin DOMAIN namedTypes
    \/ \E o \in FieldOverrides :
         /\ o[1] \in DOMAIN namedTypes
         /\ heap[namedTypes[o[1]]].Kind = TyKindObject
         /\ \A i \in DOMAIN heap[namedTypes[o[1]]].Fields :
              heap[namedTypes[o[1]]].Fields[i].Name # o[2]

C18_ResponseTypesSubstituted ==
    [][pc = "changeResponseTypes" =>
         LET subst == config.ChangeHttpHandlerResponseType
         IN /\ (\E hn \in DOMAIN subst : subst[hn] \notin DOMAIN namedTypes)
                 => (pc' = "returned" /\ ret'.err # NoErr)
            /\ pc' = "renameTypes" =>
                 /\ heap' = heap /\ namedTypes' = namedTypes
                 /\ DOMAIN modules' = DOMAIN modules
                 /\ \A m \in DOMAIN modules :
                      /\ modules'[m].Types = modules[m].Types
                      /\ DOMAIN modules'[m].HttpHandlers = DOMAIN modules[m].HttpHandlers
                      /\ \A i \in DOMAIN modules[m].HttpHandlers :
                           LET old == modules[m].HttpHandlers[i]
                               new == modules'[m].HttpHandlers[i]
                           IN IF old.Name \in DOMAIN subst
                              THEN new = [old EXCEPT !.ResponseBody = namedTypes[subst[old.Name]]]
                              ELSE new = old]_vars

\* C18, its case: changeResponseTypes has succeeded with the substitution
\* Zebra -> B: the handler Zebra returns the registered node B, and a
\* handler that is not named in the substitution returns another type
C18_Witness ==
    /\ pc = "renameTypes"
    /\ "Zebra" \in DOMAIN config.ChangeHttpHandlerResponseType
    /\ config.ChangeHttpHandlerResponseType["Zebra"] = "B"
    /\ \E h \in AllHandlers : h.Name = "Zebra" /\ h.ResponseBody = namedTypes["B"]
    /\ \E h \in AllHandlers :
         /\ h.Name \notin DOMAIN config.ChangeHttpHandlerResponseType
         /\ h.ResponseBody # Nil /\ h.ResponseBody # namedTypes["B"]

\* C19: after a successful ParseOpenAPI every module's Types list holds
\* only types with IsNamed set and holds no node twice.
C19_TypesNamedAndDistinct ==
    Succeeded =>
      \A m \in DOMAIN ret.modules :
        LET types == ret.modules[m].Types
        IN /\ \A i \in DOMAIN types : heap[types[i]].IsNamed
           /\ \A i \in DOMAIN types : \A j \in DOMAIN types : i # j => types[i] # types[j]

\* C19, its case: a successful run has left a module with several types
\* whose handlers' bodies reach an anonymous type, which the sort had in its
\* graph and the list does not have
C19_Witness ==
    /\ Succeeded
    /\ \E m \in DOMAIN ret.modules :
         LET types == ret.modules[m].Types
             reached == Closure(heap, EntryTypes(ret.modules[m]))
         IN /\ Len(types) >= 2
            /\ \E t \in reached : ~heap[t].IsNamed
            /\ {types[i] : i \in DOMAIN types} = {t \in reached : heap[t].IsNamed}

SupportedEncodings == {"multipart/form-data", "application/json"}

\* the media types of the request body of op that carry a schema
RequestEncodings(op) == {ct \in DOMAIN op.requestBody : op.requestBody[ct] # NoSchema}

\* C20: processOperations (through convertOperation) returns an error for
\* an operation whose request body has an encoding other than
\* multipart/form-data and application/json, and never turns it into a
\* handler; of the operations it converts, a multipart/form-data body makes
\* a file-upload handler and an application/json body a structured one.
C20_UnsupportedEncodingIsAnError ==
    [][pc = "processOperations" =>
         /\ (\E path \in DOMAIN doc.paths : \E method \in DOMAIN doc.paths[path] :
               RequestEncodings(doc.paths[path][method]) \ SupportedEncodings # {})
              => (pc' = "returned" /\ ret'.err # NoErr)
         /\ pc' = "generateUnnamedResponseTypes" =>
              \A m \in DOMAIN modules' : \A i \in DOMAIN modules'[m].HttpHandlers :
                LET h == modules'[m].HttpHandlers[i]
                    encodings == RequestEncodings(doc.paths[h.Path][h.Method])
                IN /\ encodings = {"multipart/form-data"} => h.ContentType = ContentTypeFile
                   /\ encodings = {"application/json"} => h.ContentType = ContentTypeJson]_vars

ParamLocations == {"header", "path", "query"}

\* the names of the parameters of op declared for the location `in`
DeclaredIn(op, in) ==
    LET ps == SelectSeq(op.parameters, LAMBDA q : q.in = in)
    IN [i \in DOMAIN ps |-> ps[i].name]

\* the names of a parameter list of a handler
ParamNames(fields) == [i \in DOMAIN fields |-> fields[i].Name]

\* the document without the parameters of other locations
WithoutOtherLocations(d) ==
    [d EXCEPT !.paths =
       [path \in DOMAIN d.paths |->
          [method \in DOMAIN d.paths[path] |->
             [d.paths[path][method] EXCEPT
                !.parameters = SelectSeq(@, LAMBDA q : q.in \in ParamLocations)]]]]

\* C21: every parameter declared with the location header, path or query
\* is in the parameter list of that location and in no other, in
\* declaration order; a parameter of another location is in no list and
\* never makes the conversion fail: operations that convert without such
\* parameters convert with them.
C21_ParametersByLocation ==
    [][pc = "processOperations" =>
         /\ pc' = "generateUnnamedResponseTypes" =>
              \A m \in DOMAIN modules' : \A i \in DOMAIN modules'[m].HttpHandlers :
                LET h == modules'[m].HttpHandlers[i]
                    op == doc.paths[h.Path][h.Method]
                IN /\ ParamNames(h.HeaderParams) = DeclaredIn(op, "header")
                   /\ ParamNames(h.PathParams) = DeclaredIn(op, "path")
                   /\ ParamNames(h.QueryParams) = DeclaredIn(op, "query")
         /\ (pc' = "returned" /\ ret'.err # NoErr) =>
              \A r \in ProcessOperations(WithoutOtherLocations(doc), PState) : r.err # NoErr]_vars

\* C22: at every point of a build every key of the registry maps to a node
\* of that name with IsNamed set, and no node is registered under two keys
\* (so no anonymous type is registered), also after processNamedTypes of a
\* component that is only a reference to another one and after renameTypes.
C22_RegistryOneToOne ==
    \A k \in DOMAIN namedTypes :
      /\ namedTypes[k] # Nil
      /\ heap[namedTypes[k]].Name = k
      /\ heap[namedTypes[k]].IsNamed
      /\ \A l \in DOMAIN namedTypes : namedTypes[l] = namedTypes[k] => l = k

\* the module an operation belongs to
TagModule(op) == IF op.tags = <<>> THEN "default" ELSE JoinStrings(op.tags, ".")

\* the handlers of the module set mods made from the operation k
HandlersOf(mods, k) ==
    {mi \in UNION {{<<m, i>> : i \in DOMAIN mods[m].HttpHandlers} : m \in DOMAIN mods} :
       /\ mods[mi[1]].HttpHandlers[mi[2]].Path = k[1]
       /\ mods[mi[1]].HttpHandlers[mi[2]].Method = k[2]}

\* mods has one handler per operation of the document, in the module of
\* the operation's tags, and no module without an operation
OperationsPlaced(mods) ==
    /\ DOMAIN mods = {TagModule(doc.paths[k[1]][k[2]]) : k \in OpKeys(doc)}
    /\ \A k \in OpKeys(doc) :
         /\ Cardinality(HandlersOf(mods, k)) = 1
         /\ \A mi \in HandlersOf(mods, k) : mi[1] = TagModule(doc.paths[k[1]][k[2]])
    /\ \A m \in DOMAIN mods :
         /\ mods[m].Name = m
         /\ \A i \in DOMAIN mods[m].HttpHandlers :
              <<mods[m].HttpHandlers[i].Path, mods[m].HttpHandlers[i].Method>> \in OpKeys(doc)

\* C23: once processOperations has succeeded, and in the result of a
\* successful ParseOpenAPI, every operation is in exactly one module, the
\* one named by its tags joined with '.' or `default` without tags, and the
\* modules are exactly those some operation maps to.
C23_OperationsInTagModules ==
    /\ pc \in {StageOrder[i] : i \in 4..Len(StageOrder)} => OperationsPlaced(modules)
    /\ Succeeded => OperationsPlaced(ret.modules)

\* C23, its case: a build with the nil configuration has succeeded on a
\* document with a tagged and an untagged operation, and the result has the
\* module of the tag and the module `default`
C23_Witness ==
    /\ Succeeded
    /\ config = EmptyConfig
    /\ \E k \in OpKeys(doc) : doc.paths[k[1]][k[2]].tags = <<"m1">>
    /\ \E k \in OpKeys(doc) : doc.paths[k[1]][k[2]].tags = <<>>
    /\ DOMAIN ret.modules = {"m1", "default"}

\* the nodes of a type list
TypeSet(types) == {types[i] : i \in DOMAIN types}

\* C24: after a successful ParseOpenAPI a registered type that
\* TypeModuleMap maps to an existing module M has the Module M and is in
\* the final Types list of M, whether or not a handler of M refers to it.
C24_ExplicitAssignmentKept ==
    Succeeded =>
      \A tn \in DOMAIN config.TypeModuleMap :
        (tn \in DOMAIN namedTypes /\ config.TypeModuleMap[tn] \in DOMAIN ret.modules) =>
          /\ heap[namedTypes[tn]].Module = config.TypeModuleMap[tn]
          /\ namedTypes[tn] \in TypeSet(ret.modules[config.TypeModuleMap[tn]].Types)

\* C25: after a successful ParseOpenAPI the final Types list of every
\* module, a module without an assigned type included, holds exactly the
\* named types reachable from the request and response bodies of the
\* module's handlers through object fields and array elements.
C25_TypesAreTheReachableNamedTypes ==
    Succeeded =>
      \A m \in DOMAIN ret.modules :
        TypeSet(ret.modules[m].Types) =
          {t \in Closure(heap, EntryTypes(ret.modules[m])) : heap[t].IsNamed}

\* the modules with a handler that reaches the type t
UsingModules(t) ==
    {m \in DOMAIN ret.modules :
       \E i \in DOMAIN ret.modules[m].HttpHandlers :
         LET h == ret.modules[m].HttpHandlers[i]
         IN t \in Closure(heap, ({h.RequestBody, h.ResponseBody}
                                   \cup {h.HeaderParams[j].Type : j \in DOMAIN h.HeaderParams}
                                   \cup {h.PathParams[j].Type : j \in DOMAIN h.PathParams}
                                   \cup {h.QueryParams[j].Type : j \in DOMAIN h.QueryParams})
                                  \ {Nil})}

\* C26: a registered type that is not explicitly mapped and that handlers
\* of two or more modules refer to has the same Module after a second
\* successful run on the same document and configuration as after the
\* first.
C26_SharedTypeSameModuleEveryRun ==
    (Succeeded /\ prev # <<>>) =>
      \A k \in DOMAIN namedTypes :
        (/\ k \notin DOMAIN config.TypeModuleMap
         /\ k \in DOMAIN prev[2]
         /\ Cardinality(UsingModules(namedTypes[k])) >= 2)
          => heap[namedTypes[k]].Module = prev[2][k]

\* the names of the named types of a sorted sequence, in order
NamedOrder(sorted) ==
    LET named == SelectSeq(sorted, LAMBDA t : heap[t].IsNamed)
    IN [i \in DOMAIN named |-> heap[named[i]].Name]

\* the sequences the sort of module m can return
SortResults(m) ==
    {r.sorted : r \in {x \in TopologicalSortTypes(heap, EntryTypes(modules[m])) : x.err = NoErr}}

\* in the sequence of named types, every type is one of smallest name among
\* the types that are ready at its position: those not yet listed whose
\* named dependencies all are
SmallestReadyFirst(sorted) ==
    LET named == SelectSeq(sorted, LAMBDA t : heap[t].IsNamed)
        Deps(t) == {d \in Closure(heap, {t}) \ {t} : heap[d].IsNamed}
        Before(i) == {named[j] : j \in 1..(i - 1)}
    IN \A i \in DOMAIN named :
         \A t \in TypeSet(named) \ Before(i) :
           Deps(t) \subseteq Before(i) => ~StrLess(heap[t].Name, heap[named[i]].Name)

\* C27: for the dependency graph and the type names of a module the order
\* of the named types the sort returns is unique, however the entry types
\* are presented, the nodes numbered and the ties between anonymous types
\* resolved; among the named types ready at the same time the one of the
\* smaller name comes first.
C27_SortOrderUnique ==
    pc = "assignTypesToModules" =>
      \A m \in DOMAIN modules :
        /\ \A a \in SortResults(m) : \A b \in SortResults(m) : NamedOrder(a) = NamedOrder(b)
        /\ \A a \in SortResults(m) : SmallestReadyFirst(a)

\* the types handlers refer to: bodies and parameters
HandlerRoots(h) ==
    ({h.RequestBody, h.ResponseBody}
     \cup {h.HeaderParams[j].Type : j \in DOMAIN h.HeaderParams}
     \cup {h.PathParams[j].Type : j \in DOMAIN h.PathParams}
     \cup {h.QueryParams[j].Type : j \in DOMAIN h.QueryParams}) \ {Nil}

\* the types reachable from S through fields, array elements and map values
RECURSIVE ClosureThroughMaps(_, _)
ClosureThroughMaps(hp, S) ==
    LET next == S \cup UNION {DirectDeps(hp, t) \cup ({hp[t].ValueType} \ {Nil}) : t \in S}
    IN IF next = S THEN S ELSE ClosureThroughMaps(hp, next)

\* the registered types that handlers reach, and only through the value
\* type of a map
BehindMapsOnly ==
    LET roots == UNION {HandlerRoots(h) : h \in AllHandlers}
    IN {t \in ClosureThroughMaps(heap, roots) \ Closure(heap, roots) :
          \E k \in DOMAIN namedTypes : namedTypes[k] = t}

\* C28: a named type that handlers reach only through the value type of a
\* map is in the reach of neither walk: after a successful ParseOpenAPI its
\* Module is unset unless TypeModuleMap names it, and it is in no module's
\* final Types list.
C28_MapValuesNotWalked ==
    /\ pc = "assignTypesToModules" =>
         \A t \in BehindMapsOnly :
           /\ \A h \in AllHandlers : t \notin CollectHandlerTypes(heap, h)
           /\ \A m \in DOMAIN modules : t \notin GraphNodes(heap, EntryTypes(modules[m]))
    /\ Succeeded =>
         \A t \in BehindMapsOnly :
           /\ (\A k \in DOMAIN config.TypeModuleMap :
                 k \in DOMAIN namedTypes => namedTypes[k] # t)
                => heap[t].Module = ""
           /\ \A m \in DOMAIN ret.modules : t \notin TypeSet(ret.modules[m].Types)

\* C28, its case: a successful run on a document whose handlers return a
\* map of a named type: the value type is registered, no module has it, and
\* the type holding the map is in a module's list
C28_Witness ==
    /\ Succeeded
    /\ \E t \in BehindMapsOnly :
         /\ heap[t].IsNamed /\ heap[t].Module = ""
         /\ \E o \in DOMAIN heap : heap[o].Kind = TyKindMap /\ heap[o].ValueType = t
    /\ \E m \in DOMAIN ret.modules : \E i \in DOMAIN ret.modules[m].Types :
         \E k \in DOMAIN heap[ret.modules[m].Types[i]].Fields :
           heap[heap[ret.modules[m].Types[i]].Fields[k].Type].Kind = TyKindMap

\* the name a registered type has after the rename batch
Renamed(k) == IF k \in DOMAIN config.RenameTypes THEN config.RenameTypes[k] ELSE k

\* C29: a successful renameTypes keeps the number of registered types, and
\* every type registered before it is registered after it, under its new
\* name if the batch renames it and under its old name otherwise.
C29_RenameLosesNoType ==
    [][(pc = "renameTypes" /\ pc' = "renameHandlers") =>
         /\ Cardinality(DOMAIN namedTypes') = Cardinality(DOMAIN namedTypes)
         /\ \A k \in DOMAIN namedTypes :
              /\ Renamed(k) \in DOMAIN namedTypes'
              /\ namedTypes'[Renamed(k)] = namedTypes[k]]_vars

\* C30: after a successful ParseOpenAPI the types of every module's final
\* Types list have non-empty names, and no two positions of one list hold
\* types of the same name.
C30_ListedNamesDistinct ==
    Succeeded =>
      \A m \in DOMAIN ret.modules :
        LET types == ret.modules[m].Types
        IN  /\ \A i \in DOMAIN types : heap[types[i]].Name # ""
            /\ \A i, j \in DOMAIN types :
                 heap[types[i]].Name = heap[types[j]].Name => i = j

====
